---------------------------- MODULE Spec2Model ----------------------------
(***************************************************************************)
(* A model of xurl-core: the write adapters (provider/*.rs run_write), the *)
(* line-delimited event reader (jsonl.rs) and the per-provider resolvers   *)
(* (provider/*.rs resolve).                                                *)
(*                                                                         *)
(* The write adapter is modelled as three execution paths: the main path   *)
(* (run_write), the auxiliary stderr-drain thread it spawns, and the child *)
(* process writing to two bounded pipes.                                   *)
(***************************************************************************)
EXTENDS Naturals, Sequences, FiniteSets, TLC

(***************************************************************************)
(* Bounds of the model.                                                    *)
(***************************************************************************)
\* Capacity of each pipe buffer (lines of stdout, chunks of stderr).
PipeCap == 1
\* Number of lines the child writes to stdout at most.
MaxOut == 2
\* Number of chunks the child writes to stderr at most.
MaxErr == 2

None == "<none>"

Providers == {"amp", "codex", "claude", "gemini", "pi", "opencode"}

\* Session identifiers a request or an event can carry.
Ids == {"A", "B"}

(***************************************************************************)
(* JSON values.  A parsed line is a record holding the fields the six      *)
(* run_write handlers read; a field that is absent (or not of the type the *)
(* handler asks for with as_str/as_bool/as_array) is None / FALSE.         *)
(*   sid        thread_id (codex), session_id (amp, claude, gemini),       *)
(*              id (pi), sessionID or sessionId (opencode)                 *)
(*   item_type, item_text   item.type, item.text (codex)                   *)
(*   parts      message.content as an array of typed parts; <<>> stands    *)
(*              for an empty array and for no array at all, which every    *)
(*              handler treats alike                                       *)
(*   mrole, mcontent, mdelta   message.role, message.content (a string),   *)
(*              message.delta                                              *)
(*   ame_type, ame_delta    assistantMessageEvent.type / .delta (pi)       *)
(*   emsg       error.message (amp, opencode), edmsg error.data.message    *)
(***************************************************************************)
JNull ==
    [kind |-> "json", type |-> None, subtype |-> None, sid |-> None,
     item_type |-> None, item_text |-> None,
     role |-> None, content |-> None, parts |-> <<>>,
     mrole |-> None, mcontent |-> None, mdelta |-> None,
     ame_type |-> None, ame_delta |-> None,
     delta |-> None, textDelta |-> None, delta_flag |-> FALSE,
     is_error |-> FALSE, status |-> None, error |-> None, emsg |-> None,
     edmsg |-> None, message |-> None, result |-> None, response |-> None]

\* A line holding only white space, and a line that is no JSON value.
BlankLine == [JNull EXCEPT !.kind = "blank"]
GarbageLine == [JNull EXCEPT !.kind = "garbage"]
\* A line whose bytes are not UTF-8: read_line and lines() fail on it.
UndecodableLine == [JNull EXCEPT !.kind = "undecodable"]

TextPart(t) == [type |-> "text", text |-> t]
ToolPart == [type |-> "tool_use", text |-> None]


(***************************************************************************)
(* The sink: the two fallible operations of WriteEventSink.                *)
(***************************************************************************)
Ready(id) == <<"session_ready", id>>
Delta(text) == <<"text_delta", text>>

\* The locals of run_write that outlive one line of the stream.
InitLocals(requested) ==
    [session_id |-> requested, final_text |-> None, streamed_text |-> "",
     streamed_delta |-> FALSE, stream_error |-> None, saw_json_event |-> FALSE]

\* What handling one JSON value does: the sink calls it makes, in order, and
\* the locals after it (when every call succeeds).
Step(calls, st) == [calls |-> calls, st |-> st]

\* Option::or_else over optional strings.
OrElse(a, b) == IF a # None THEN a ELSE b

\* The texts of the parts of type "text", joined with no separator.
RECURSIVE JoinTextParts(_)
JoinTextParts(parts) ==
    IF parts = <<>> THEN ""
    ELSE LET p == Head(parts)
             t == IF p.type = "text" /\ p.text # None THEN p.text ELSE ""
         IN  t \o JoinTextParts(Tail(parts))

\* amp.rs / claude.rs extract_assistant_text: message.content must be an
\* array; None when the joined text is empty.
ExtractAssistantText(v) ==
    LET text == JoinTextParts(v.parts)
    IN  IF text = "" THEN None ELSE text

\* codex.rs: a thread.started event carrying a thread_id reports the session.
CodexReportsSession(st, v) == v.sid # None

CodexOnValue(st, v) ==
    IF v.type = None THEN Step(<<>>, st)
    ELSE IF v.type = "thread.started" THEN
        IF CodexReportsSession(st, v)
        THEN Step(<<Ready(v.sid)>>, [st EXCEPT !.session_id = v.sid])
        ELSE Step(<<>>, st)
    ELSE IF v.type # "item.completed" THEN Step(<<>>, st)
    ELSE IF v.item_type # "agent_message" THEN Step(<<>>, st)
    ELSE IF v.item_text # None
        THEN Step(<<Delta(v.item_text)>>, [st EXCEPT !.final_text = v.item_text])
        ELSE Step(<<>>, st)

\* The "result" arm's fallback delivery of the final text (amp, claude).
ResultText(st, v) ==
    IF st.final_text = None /\ v.result # None /\ v.result # ""
    THEN Step(<<Delta(v.result)>>, [st EXCEPT !.final_text = v.result])
    ELSE Step(<<>>, st)

\* The "system" arm (amp, claude): an init event carrying a session_id.
SystemInit(st, v) ==
    IF v.subtype = "init" /\ v.sid # None
    THEN Step(<<Ready(v.sid)>>, [st EXCEPT !.session_id = v.sid])
    ELSE Step(<<>>, st)

\* The "assistant" arm (amp, claude).
AssistantTurn(st, v) ==
    LET text == ExtractAssistantText(v)
        st1 == IF text # None THEN [st EXCEPT !.final_text = text] ELSE st
        st2 == IF v.sid # None THEN [st1 EXCEPT !.session_id = v.sid] ELSE st1
    IN  Step(IF text # None THEN <<Delta(text)>> ELSE <<>>, st2)

\* amp.rs: the error signal of a "result" event and the text it carries.
AmpIsError(v) == v.is_error \/ v.subtype = "error"

AmpOnValue(st, v) ==
    IF v.type = None THEN Step(<<>>, st)
    ELSE IF v.type = "system" THEN SystemInit(st, v)
    ELSE IF v.type = "assistant" THEN AssistantTurn(st, v)
    ELSE IF v.type = "result" THEN
        LET st1 == IF v.sid # None THEN [st EXCEPT !.session_id = v.sid] ELSE st
            st2 == IF AmpIsError(v)
                   THEN [st1 EXCEPT !.stream_error = OrElse(v.result, v.emsg)]
                   ELSE st1
        IN  ResultText(st2, v)
    ELSE Step(<<>>, st)

\* claude.rs: the "result" arm reads session_id and result only.
ClaudeOnResult(st, v) ==
    LET st1 == IF v.sid # None THEN [st EXCEPT !.session_id = v.sid] ELSE st
    IN  ResultText(st1, v)

ClaudeOnValue(st, v) ==
    IF v.type = None THEN Step(<<>>, st)
    ELSE IF v.type = "system" THEN SystemInit(st, v)
    ELSE IF v.type = "assistant" THEN AssistantTurn(st, v)
    ELSE IF v.type = "result" THEN ClaudeOnResult(st, v)
    ELSE Step(<<>>, st)

\* gemini.rs, opencode.rs, pi.rs: a session id is reported when it differs
\* from the one tracked so far.
SessionChanged(st, id) == id # None /\ st.session_id # id

GeminiOnValue(st0, v) ==
    LET st == [st0 EXCEPT !.saw_json_event = TRUE]
        ready == SessionChanged(st, v.sid)
        st1 == IF ready THEN [st EXCEPT !.session_id = v.sid] ELSE st
        msg == /\ v.type = "message" /\ v.role = "assistant"
               /\ v.content # None /\ v.content # ""
        st2 == IF ~msg THEN st1
               ELSE IF v.delta_flag
                    THEN [st1 EXCEPT !.streamed_text = @ \o v.content,
                                     !.final_text = st1.streamed_text \o v.content]
                    ELSE [st1 EXCEPT !.final_text = v.content]
        st3 == IF v.type = "result" /\ v.status # "success"
               THEN [st2 EXCEPT !.stream_error =
                        OrElse(v.error, OrElse(v.message, v.status))]
               ELSE st2
        resp == st3.final_text = None /\ v.response # None /\ v.response # ""
        st4 == IF resp THEN [st3 EXCEPT !.final_text = v.response] ELSE st3
    IN  Step((IF ready THEN <<Ready(v.sid)>> ELSE <<>>)
             \o (IF msg THEN <<Delta(v.content)>> ELSE <<>>)
             \o (IF resp THEN <<Delta(v.response)>> ELSE <<>>), st4)

\* pi.rs extract_assistant_text, applied to the event's message.
PiExtractAssistantText(v) ==
    IF v.mrole # "assistant" THEN None
    ELSE IF v.mcontent # None
         THEN (IF v.mcontent = "" THEN None ELSE v.mcontent)
    ELSE ExtractAssistantText(v)

PiOnValue(st, v) ==
    IF v.type = None THEN Step(<<>>, st)
    ELSE IF v.type = "session" THEN
        IF SessionChanged(st, v.sid)
        THEN Step(<<Ready(v.sid)>>, [st EXCEPT !.session_id = v.sid])
        ELSE Step(<<>>, st)
    ELSE IF v.type = "message_update" THEN
        IF v.ame_type = "text_delta" /\ v.ame_delta # None /\ v.ame_delta # ""
        THEN Step(<<Delta(v.ame_delta)>>,
                  [st EXCEPT !.streamed_text = @ \o v.ame_delta,
                             !.final_text = st.streamed_text \o v.ame_delta,
                             !.streamed_delta = TRUE])
        ELSE Step(<<>>, st)
    ELSE IF v.type \in {"message_end", "turn_end"} THEN
        IF st.streamed_delta THEN Step(<<>>, st)
        ELSE LET text == PiExtractAssistantText(v)
             IN  IF text # None
                 THEN Step(<<Delta(text)>>, [st EXCEPT !.final_text = text])
                 ELSE Step(<<>>, st)
    ELSE Step(<<>>, st)

\* opencode.rs collect_text over an array of parts: every part's text string,
\* whatever the part's type.
RECURSIVE CollectParts(_)
CollectParts(parts) ==
    IF parts = <<>> THEN ""
    ELSE (IF Head(parts).text # None THEN Head(parts).text ELSE "")
         \o CollectParts(Tail(parts))

\* opencode.rs extract_delta_text: delta, else textDelta, else message.delta,
\* each only when non-empty.
NonEmpty(t) == IF t = "" THEN None ELSE t

OpencodeExtractDeltaText(v) ==
    OrElse(NonEmpty(v.delta), OrElse(NonEmpty(v.textDelta), NonEmpty(v.mdelta)))

\* opencode.rs extract_assistant_text.
OpencodeExtractAssistantText(v) ==
    LET top == IF v.role = "assistant" /\ v.content # None THEN v.content ELSE ""
        inner == IF v.mrole # "assistant" THEN ""
                 ELSE IF v.mcontent # None THEN v.mcontent
                 ELSE CollectParts(v.parts)
    IN  IF top # "" THEN top
        ELSE IF inner # "" THEN inner
        ELSE NonEmpty(v.response)

OpencodeOnValue(st0, v) ==
    LET st == [st0 EXCEPT !.saw_json_event = TRUE]
        ready == SessionChanged(st, v.sid)
        st1 == IF ready THEN [st EXCEPT !.session_id = v.sid] ELSE st
        pre == IF ready THEN <<Ready(v.sid)>> ELSE <<>>
        delta == OpencodeExtractDeltaText(v)
        text == OpencodeExtractAssistantText(v)
    IN  IF v.type = "error"
        THEN Step(pre, [st1 EXCEPT !.stream_error =
                           OrElse(v.edmsg, OrElse(v.emsg, v.message))])
        ELSE IF delta # None
        THEN Step(pre \o <<Delta(delta)>>,
                  [st1 EXCEPT !.streamed_text = @ \o delta,
                              !.final_text = st1.streamed_text \o delta,
                              !.streamed_delta = TRUE])
        ELSE IF ~st1.streamed_delta /\ text # None
        THEN Step(pre \o <<Delta(text)>>, [st1 EXCEPT !.final_text = text])
        ELSE Step(pre, st1)

\* The closure run_write hands to the reader, per provider.
OnValue(p, st, v) ==
    CASE p = "codex" -> CodexOnValue(st, v)
      [] p = "amp" -> AmpOnValue(st, v)
      [] p = "claude" -> ClaudeOnValue(st, v)
      [] p = "gemini" -> GeminiOnValue(st, v)
      [] p = "pi" -> PiOnValue(st, v)
      [] p = "opencode" -> OpencodeOnValue(st, v)

\* Providers whose stdout goes through jsonl::parse_jsonl_reader; the others
\* (gemini, opencode) scan it line by line and drop what does not parse.
StrictReader(p) == p \in {"amp", "codex", "claude", "pi"}

\* A variant of parse_json_line that passes over a line that is no JSON.
ParseJsonLineLenient(line) ==
    IF line.kind = "json" THEN [tag |-> "value", value |-> line]
    ELSE [tag |-> "none"]

\* jsonl.rs parse_json_line: nothing for a blank line, the value, or the
\* error of a line that is no JSON.
ParseJsonLine(line) ==
    IF line.kind = "blank" THEN [tag |-> "none"]
    ELSE IF line.kind = "garbage" THEN [tag |-> "err"]
    ELSE [tag |-> "value", value |-> line]

(***************************************************************************)
(* The lines a child process may write to its stdout, per provider.        *)
(***************************************************************************)
CodexLines ==
    {[JNull EXCEPT !.type = "thread.started", !.sid = i] : i \in Ids \cup {None}}
    \cup {[JNull EXCEPT !.type = "item.completed", !.item_type = "agent_message",
                        !.item_text = t] : t \in {"hi", None}}
    \cup {[JNull EXCEPT !.type = "item.completed", !.item_type = "function_call",
                        !.item_text = "hi"],
          [JNull EXCEPT !.type = "error", !.message = "boom"],
          JNull}

\* amp and claude share the stream-json vocabulary.
StreamJsonLines ==
    {[JNull EXCEPT !.type = "system", !.subtype = "init", !.sid = i] : i \in Ids}
    \cup {[JNull EXCEPT !.type = "assistant", !.parts = <<TextPart("hi")>>,
                        !.sid = i] : i \in {None, "B"}}
    \cup {[JNull EXCEPT !.type = "assistant", !.parts = <<ToolPart>>],
          [JNull EXCEPT !.type = "result", !.result = "hi"],
          [JNull EXCEPT !.type = "result", !.result = "hi", !.sid = "A"],
          [JNull EXCEPT !.type = "result", !.result = "boom", !.is_error = TRUE],
          [JNull EXCEPT !.type = "result", !.emsg = "boom", !.is_error = TRUE],
          [JNull EXCEPT !.type = "result", !.subtype = "error"]}

GeminiLines ==
    {[JNull EXCEPT !.type = "init", !.sid = i] : i \in Ids}
    \cup {[JNull EXCEPT !.type = "message", !.role = "assistant",
                        !.content = "hi", !.delta_flag = d] : d \in BOOLEAN}
    \cup {[JNull EXCEPT !.type = "message", !.role = "user", !.content = "hi"],
          [JNull EXCEPT !.type = "result", !.status = "success"],
          [JNull EXCEPT !.type = "result", !.status = "error", !.error = "boom"],
          [JNull EXCEPT !.type = "result"],
          [JNull EXCEPT !.sid = "A", !.response = "hi"]}

PiLines ==
    {[JNull EXCEPT !.type = "session", !.sid = i] : i \in Ids}
    \cup {[JNull EXCEPT !.type = "message_update", !.ame_type = k,
                        !.ame_delta = "hi"] : k \in {"text_delta", "thinking_delta"}}
    \cup {[JNull EXCEPT !.type = "message_end", !.mrole = "assistant",
                        !.mcontent = "hi"],
          [JNull EXCEPT !.type = "turn_end", !.mrole = "assistant",
                        !.parts = <<TextPart("hi")>>],
          [JNull EXCEPT !.type = "message_end", !.mrole = "user",
                        !.mcontent = "hi"],
          [JNull EXCEPT !.type = "error", !.message = "boom"]}

OpencodeLines ==
    {[JNull EXCEPT !.type = "step_start", !.sid = i] : i \in Ids}
    \cup {[JNull EXCEPT !.type = "error", !.emsg = "boom"],
          [JNull EXCEPT !.type = "error"],
          [JNull EXCEPT !.type = "text", !.delta = "hi"],
          [JNull EXCEPT !.type = "text", !.mdelta = "hi"],
          [JNull EXCEPT !.type = "message", !.role = "assistant", !.content = "hi"],
          [JNull EXCEPT !.mrole = "assistant",
                        !.parts = <<TextPart("hi"), ToolPart>>],
          [JNull EXCEPT !.response = "hi"]}

Lines(p) ==
    {BlankLine, GarbageLine, UndecodableLine} \cup
    (CASE p = "codex" -> CodexLines
       [] p \in {"amp", "claude"} -> StreamJsonLines
       [] p = "gemini" -> GeminiLines
       [] p = "pi" -> PiLines
       [] p = "opencode" -> OpencodeLines)

\* Exit codes of the child.
ExitCodes == {0, 1}

(***************************************************************************)
(* State of one write invocation.                                          *)
(***************************************************************************)
VARIABLES
    provider,     \* the provider whose run_write runs
    req,          \* the WriteRequest: [session_id]
    pc,           \* position of the main path in run_write
    child,        \* the spawned process: [state, code]
    childIntent,  \* the write the child is committed to: "none", "out", "err"
    outPipe,      \* lines in the stdout pipe buffer
    errPipe,      \* chunks in the stderr pipe buffer
    outWritten,   \* lines the child has written to stdout
    errWritten,   \* chunks the child has written to stderr
    stdoutOpen,   \* the parent still holds the read end of stdout
    stderrOpen,   \* the parent still holds the read end of stderr
    errThread,    \* the stderr-drain thread: "none", "running", "finished"
    stderr_content, \* chunks the drain thread has collected
    st,           \* the locals of run_write
    line_no,      \* parse_jsonl_reader's line counter
    sink,         \* the calls made on the sink, in order: [op, arg, ok]
    waited,       \* child.wait() has returned
    joined,       \* stderr_handle.join() has returned
    killed,       \* the parent has killed the child
    signalled,    \* error texts carried by the values handled so far
    revealed,     \* session ids carried by the values handled so far
    result        \* what run_write returned; kind "none" while it runs

wvars == <<provider, req, pc, child, childIntent, outPipe, errPipe, outWritten,
           errWritten, stdoutOpen, stderrOpen, errThread, stderr_content, st,
           line_no, sink, waited, joined, killed, signalled, revealed, result>>

(***************************************************************************)
(* State of the stores a resolver reads: the provider's directory trees,   *)
(* the Codex index databases, the Claude sessions indexes and the Opencode *)
(* database, for one session id.                                           *)
(***************************************************************************)
\* Number of file paths, latest modification time, and number of entries
\* the Claude sessions indexes hold for the session.
MaxPaths == 2
MaxMtime == 2
MaxIndex == 2

Paths == 1..MaxPaths

\* The Codex index database files, in the order state_db_paths returns
\* them: highest version first.
DbOrder == <<"state_2.sqlite", "state.sqlite">>
DbFiles == DOMAIN DbOrder

VARIABLES
    files,          \* path -> [present, mtime, tree, named, tagged]
    state_dbs,      \* the index databases in the order state_db_paths gives
    sessions_index, \* paths the sessions-index.json entries give for the id
    opencode_db,    \* [state, has_session, message, part]
    materialized,   \* the file at materialized_path: [present, lines]
    resolved,       \* what resolve returned; kind "none" before it ran
    repeated        \* the stores are as they were at the resolve before it

rvars ==
    <<files, state_dbs, sessions_index, opencode_db, materialized, resolved,
      repeated>>

\* A file of a provider's tree.  tree: the Codex directory holding it
\* ("active" for sessions/, "archived" for archived_sessions/, "outside" for
\* neither); named: its name is the one the provider's lookup asks for;
\* tagged: its content carries the session id where the provider reads it.
AbsentFile ==
    [present |-> FALSE, mtime |-> 0, tree |-> "none", named |-> FALSE,
     tagged |-> FALSE]

\* What one index database holds for the session: no row (or no such
\* file), a row [rollout_path, archived], or an error when queried.
NoRow == [kind |-> "none", path |-> 0, archived |-> FALSE]
Unreadable == [kind |-> "unreadable", path |-> 0, archived |-> FALSE]
Row(path, archived) == [kind |-> "row", path |-> path, archived |-> archived]

\* The rows the Opencode database holds for the session.  A message row is
\* [present, time, valid], keyed by its id; a part row is [present,
\* message_id, time, valid], keyed by its id.  valid: data parses as JSON.
MessageIds == {1, 2}
PartIds == {1, 2}
Times == {1, 2}

NoMessage == [present |-> FALSE, time |-> 0, valid |-> FALSE]
NoPart == [present |-> FALSE, message_id |-> 0, time |-> 0, valid |-> FALSE]
MessageRows == [present : {TRUE}, time : Times, valid : BOOLEAN]
PartRows ==
    [present : {TRUE}, message_id : MessageIds, time : Times, valid : BOOLEAN]

NoDb ==
    [state |-> "absent", has_session |-> FALSE,
     message |-> [m \in MessageIds |-> NoMessage],
     part |-> [q \in PartIds |-> NoPart]]

\* A file that holds lines, or is not there.
NoFile == [present |-> FALSE, lines |-> <<>>]
FileOf(lines) == [present |-> TRUE, lines |-> lines]

NoResolution ==
    [kind |-> "none", source |-> None, path |-> 0, candidate_count |-> 0,
     warnings |-> <<>>]

StoresEmpty ==
    /\ files = [p \in Paths |-> AbsentFile]
    /\ state_dbs = [i \in DbFiles |-> NoRow]
    /\ sessions_index = <<>>
    /\ opencode_db = NoDb
    /\ materialized = NoFile
    /\ resolved = NoResolution
    /\ repeated = FALSE

NoResult ==
    [kind |-> "none", session_id |-> None, final_text |-> None, code |-> 0,
     stderr |-> 0, command |-> None, message |-> None, detail |-> None,
     line |-> 0]

(***************************************************************************)
(* State of the components that run without a child process or a store:    *)
(* each specification below starts its own and leaves the others as they   *)
(* are here.                                                               *)
(***************************************************************************)
MaxRootLen == 2

\* Provider roots: paths of up to MaxRootLen components.
Roots ==
    UNION {[1..n -> {"a", "b"}] : n \in 1..MaxRootLen}

\* Two OpencodeProvider values.
Mounts == {1, 2}

\* Processes that resolve the same Opencode root and session id.
Callers == {1, 2}

VARIABLES
    mounted,        \* [root, path]: each provider's root and the path it gave
    callers,        \* per caller [pc, raw, off, seen]: how far its resolve is
    uri,            \* the parts of an address, and what parsing it gave
    reader,         \* parse_jsonl_reader: [input, line_no, calls, outcome, line]
    extraction,     \* [provider, value, out]: a record and the message from it
    subagent,       \* resolve_subagent_view: [provider, list, children, ...]
    command,        \* a write call up to the spawn: [provider, query, ..., out]
    scan            \* find_by_header_scan of one file: [jsonl, lines, candidate]

NoPath == [dir |-> 0, file |-> None]

MountStart(on) ==
    IF on
    THEN mounted \in [root : [Mounts -> Roots], path : {[i \in Mounts |-> NoPath]}]
    ELSE mounted = [root |-> [i \in Mounts |-> <<"a">>],
                    path |-> [i \in Mounts |-> NoPath]]

\* A caller that is not resolving.  raw: the document it rendered; off: how
\* many lines of it are written; seen: what it read at the returned path.
IdleCaller == [pc |-> "idle", raw |-> <<>>, off |-> 0, seen |-> NoFile]

CallersStart(on) == callers = [c \in Callers |-> IdleCaller]

(***************************************************************************)
(* Address strings.  A string is the sequence of its pieces: the           *)
(* separators "://", "/", "?", "&", "=" and the tokens between them.       *)
(***************************************************************************)
\* Tokens of the shape SESSION_ID_RE asks for (a UUID), in lower and in
\* upper case; of AMP_SESSION_ID_RE; of OPENCODE_SESSION_ID_RE; of
\* PI_SHORT_ENTRY_ID_RE; and tokens of no such shape.
UuidTokens == {"0a-1b", "0A-1B"}
AmpTokens == {"t-0a-1b", "T-0a-1b", "T-0A-1B"}
OpencodeTokens == {"ses_aB"}
PiShortTokens == {"1c13017f", "1C13017F"}
Tokens ==
    UuidTokens \cup AmpTokens \cup OpencodeTokens \cup PiShortTokens
    \cup {"threads", "Acompact-69", ""}

\* The text after "?", when there is one.
NoQuery == [present |-> FALSE, lex |-> <<>>]
Queries ==
    {NoQuery} \cup
    [present : {TRUE},
     lex : {<<>>, <<"k">>, <<"k", "=", "v">>, <<"k", "=", "%2F">>,
            <<"k", "=", "%zz">>, <<"=", "v">>, <<"k", "=", "a", "://", "b">>,
            <<"k", "&", "k", "=", "v">>}]

\* The three ways to write an address.
Forms == {"legacy", "agents", "bare"}

\* What parsing gave: an AgentsUri, or the error.
Invalid(kind) ==
    [ok |-> FALSE, error |-> kind, provider |-> None, session_id |-> "",
     agent_id |-> None, query |-> <<>>]
Address(provider_, session_id, agent_id, query) ==
    [ok |-> TRUE, error |-> None, provider |-> provider_,
     session_id |-> session_id, agent_id |-> agent_id, query |-> query]
Pending == Invalid("pending")

UriStart(on) ==
    IF on
    THEN uri \in [provider : Providers, id : Tokens, agent : Tokens \cup {None},
                  query : Queries, deeplink : BOOLEAN,
                  parsed : {[f \in Forms |-> Pending]},
                  again : {[form |-> None, style |-> None, out |-> Pending]}]
    ELSE uri = [provider |-> "codex", id |-> "", agent |-> None,
                query |-> NoQuery, deeplink |-> FALSE,
                parsed |-> [f \in Forms |-> Pending],
                again |-> [form |-> None, style |-> None, out |-> Pending]]

(***************************************************************************)
(* A line-delimited stream handed to jsonl::parse_jsonl_reader.            *)
(***************************************************************************)
MaxLines == 3

\* The lines a stream is made of: blank, not JSON, or one of two values.
StreamLines ==
    {BlankLine, GarbageLine, [JNull EXCEPT !.type = "error"],
     [JNull EXCEPT !.type = "result"]}

ReaderStart(on) ==
    IF on
    THEN reader \in [input : UNION {[1..n -> StreamLines] : n \in 0..MaxLines},
                     line_no : {0}, calls : {<<>>}, outcome : {"reading"},
                     line : {0}]
    ELSE reader = [input |-> <<>>, line_no |-> 0, calls |-> <<>>,
                   outcome |-> "reading", line |-> 0]

(***************************************************************************)
(* Records of a thread file, as turl-core's render.rs reads them.          *)
(***************************************************************************)
MaxItems == 2

\* render.rs TOOL_TYPES.
ToolTypes ==
    {"tool_call", "tool_result", "tool_use", "function_call",
     "function_result", "function_response"}

\* An item of a content array, or a part: its type and its text fields.
\* Items of a tool type carry the text "t", the others "a"; " " is blank.
Item(type, text, input_text, output_text, thinking) ==
    [type |-> type, text |-> text, input_text |-> input_text,
     output_text |-> output_text, thinking |-> thinking]
ContentItems ==
    {Item("text", "a", None, None, None), Item("text", " ", None, None, None),
     Item("output_text", " a ", None, None, None),
     Item(None, None, "a", None, None), Item(None, None, " ", "a", None),
     Item("thinking", None, None, None, "a"),
     Item("image", None, None, None, None),
     Item("tool_use", "t", None, None, None),
     Item("tool_result", None, " t ", None, None),
     Item("function_call", None, None, "t", None)}
OpencodeParts ==
    {Item("text", " a ", None, None, None), Item("text", " ", None, None, None),
     Item("reasoning", "a", None, None, None),
     Item("tool", "t", None, None, None), Item(None, "a", None, None, None)}

\* A content value: absent, a string, or an array of items.
Content(kind, text, items) == [kind |-> kind, text |-> text, items |-> items]
Contents ==
    {Content("absent", "", <<>>), Content("string", "a", <<>>),
     Content("string", " ", <<>>)}
    \cup {Content("array", "", items) :
            items \in UNION {[1..n -> ContentItems] : n \in 0..MaxItems}}

\* The providers render.rs of turl-core knows.
TurlProviders == {"amp", "codex", "claude", "opencode"}

\* The records of one provider's thread file (for Amp: the entries of the
\* document's messages array).
Records(p) ==
    CASE p = "codex" ->
           [type : {"response_item", "event_msg", "turn_context"},
            payload_type : {"message", "function_call", "agent_message"},
            role : {"user", "assistant", "developer"}, content : Contents,
            message : {None, "a", " "}, parts : {<<>>}]
      [] p = "claude" ->
           [type : {"user", "assistant", "summary"}, payload_type : {None},
            role : {None, "user", "assistant", "system"}, content : Contents,
            message : {None}, parts : {<<>>}]
      [] p = "amp" ->
           [type : {None}, payload_type : {None},
            role : {None, "user", "assistant"}, content : Contents,
            message : {None}, parts : {<<>>}]
      [] p = "opencode" ->
           [type : {"session", "message"}, payload_type : {None},
            role : {None, "user", "assistant"},
            content : {Content("absent", "", <<>>)}, message : {None},
            parts : UNION {[1..n -> OpencodeParts] : n \in 0..MaxItems}]

NotExtracted == [some |-> FALSE, role |-> None, text |-> <<>>]

ExtractionStart(on) ==
    IF on
    THEN \E p \in TurlProviders :
            extraction \in [provider : {p}, value : Records(p),
                            done : {FALSE}, out : {NotExtracted}]
    ELSE extraction =
            [provider |-> "amp",
             value |-> [type |-> None, payload_type |-> None, role |-> None,
                        content |-> Content("absent", "", <<>>),
                        message |-> None, parts |-> <<>>],
             done |-> FALSE, out |-> NotExtracted]

(***************************************************************************)
(* What the stores hold about the children of a parent thread.             *)
(***************************************************************************)
MaxChildren == 2

\* One child as the stores show it: forward, the parent's side names the
\* child (a spawn/wait/close call, a handoff entry, a subagents/ file, a log
\* entry, a relation hint); backward, the child's side names the parent (its
\* header, its handoff entry, its parent_id column); found, the child thread
\* itself can be read.
Children == [forward : BOOLEAN, backward : BOOLEAN, found : BOOLEAN]

NoView == [relations |-> <<>>, warnings |-> 0]

SubagentStart(on) ==
    IF on
    THEN \E list \in BOOLEAN :
            subagent \in
                [provider : Providers, list : {list},
                 children : UNION {[1..n -> Children] :
                             n \in (IF list THEN 0..MaxChildren ELSE {1})},
                 done : {FALSE}, view : {NoView}]
    ELSE subagent = [provider |-> "amp", list |-> TRUE, children |-> <<>>,
                     done |-> FALSE, view |-> NoView]

(***************************************************************************)
(* The options of a write call: the query of the address and the role.     *)
(***************************************************************************)
MaxOptions == 2

Option(key, value) == [key |-> key, value |-> value]

\* Query pairs of a write address.  "/w" and "/d" are directories, "rel" is
\* a directory below the caller's, "/gone" does not exist.
OptionPairs ==
    {Option("model", "v"), Option("flag", None), Option("flag", ""),
     Option("json", "1"), Option("format", "v"), Option("resume", "v"),
     Option("workdir", "/w"), Option("workdir", "rel"), Option("workdir", ""),
     Option("add_dir", "/d"), Option("add_dir", "/gone"), Option("add_dir", "")}

WriteQueries == UNION {[1..n -> OptionPairs] : n \in 0..MaxOptions}

\* The role of a role-based write address: none, one that the Codex
\* configuration defines, one that it does not define.
Roles == {None, "reviewer", "ghost"}

CallerDir == "/cwd"

NotBuilt ==
    [failed |-> None, spawned |-> FALSE, args |-> <<>>, cwd |-> CallerDir,
     warnings |-> <<>>, printed |-> <<>>]

CommandStart(on) ==
    IF on
    THEN command \in
            [provider : Providers, resume : BOOLEAN, found : BOOLEAN,
             query : WriteQueries, role : Roles, done : {FALSE},
             out : {NotBuilt}]
    ELSE command =
            [provider |-> "amp", resume |-> FALSE, found |-> TRUE,
             query |-> <<>>, role |-> None, done |-> FALSE, out |-> NotBuilt]

(***************************************************************************)
(* A file of the Claude projects tree, line by line.                       *)
(***************************************************************************)
\* claude.rs file_contains_session_id reads this many lines.
HeaderLines == 30

MaxBlanks == 2

\* A file: some lines without the session id, blank lines after the first
\* of them, and then, when tagged, a line whose sessionId is the session's.
\* A line is "blank", "tagged", "other" (JSON without the session id) or
\* "garbage" (not JSON).
FileLines(others, blanks, filler, tagged) ==
    [i \in 1..(others + blanks + (IF tagged THEN 1 ELSE 0)) |->
        IF i = others + blanks + 1 THEN "tagged"
        ELSE IF i >= 2 /\ i <= blanks + 1 THEN "blank"
        ELSE IF i = 1 /\ others = 0 THEN "blank"
        ELSE filler]

ScanStart(on) ==
    IF on
    THEN \E others \in 0..(HeaderLines + 1), blanks \in 0..MaxBlanks,
            filler \in {"other", "garbage"}, tagged \in BOOLEAN :
            scan \in
                [jsonl : BOOLEAN,
                 lines : {FileLines(others, blanks, filler, tagged)},
                 done : {FALSE}, candidate : {FALSE}]
    ELSE scan = [jsonl |-> TRUE, lines |-> <<>>, done |-> FALSE,
                 candidate |-> FALSE]

xvars == <<mounted, callers, uri, reader, extraction, subagent, command, scan>>
besidesMounted == <<callers, uri, reader, extraction, subagent, command, scan>>
besidesCallers == <<mounted, uri, reader, extraction, subagent, command, scan>>
besidesUri == <<mounted, callers, reader, extraction, subagent, command, scan>>
besidesReader == <<mounted, callers, uri, extraction, subagent, command, scan>>
besidesExtraction == <<mounted, callers, uri, reader, subagent, command, scan>>
besidesSubagent == <<mounted, callers, uri, reader, extraction, command, scan>>
besidesCommand == <<mounted, callers, uri, reader, extraction, subagent, scan>>
besidesScan == <<mounted, callers, uri, reader, extraction, subagent, command>>

\* The start of every component but the one named.
Others(on) ==
    /\ MountStart(on = "mount")
    /\ CallersStart(on = "callers")
    /\ UriStart(on = "uri")
    /\ ReaderStart(on = "reader")
    /\ ExtractionStart(on = "extraction")
    /\ SubagentStart(on = "subagent")
    /\ CommandStart(on = "command")
    /\ ScanStart(on = "scan")

\* No write invocation is running.
WriteIdle ==
    /\ pc = "idle"
    /\ child = [state |-> "none", code |-> 0]
    /\ childIntent = "none"
    /\ outPipe = <<>>
    /\ errPipe = 0
    /\ outWritten = 0
    /\ errWritten = 0
    /\ stdoutOpen = FALSE
    /\ stderrOpen = FALSE
    /\ errThread = "none"
    /\ stderr_content = 0
    /\ st = InitLocals(None)
    /\ line_no = 0
    /\ sink = <<>>
    /\ waited = FALSE
    /\ joined = FALSE
    /\ killed = FALSE
    /\ signalled = {}
    /\ revealed = {}
    /\ result = NoResult

WInit ==
    /\ provider \in Providers
    /\ req \in [session_id : Ids \cup {None}]
    /\ WriteIdle
    /\ StoresEmpty
    /\ Others("write")

(***************************************************************************)
(* What the stream says, as the claims read it (history only: no action    *)
(* reads these).                                                           *)
(***************************************************************************)
\* A value carrying an error signal: an is_error flag, an error field, or a
\* status other than success.
ErrorSignal(v) ==
    \/ v.is_error
    \/ v.error # None \/ v.emsg # None \/ v.edmsg # None
    \/ v.status \notin {None, "success"}

\* The text that comes with the signal (None when it carries none).
ErrorText(v) ==
    OrElse(v.error, OrElse(v.edmsg, OrElse(v.emsg,
        OrElse(v.message, OrElse(v.result, v.status)))))

(***************************************************************************)
(* The terminal outcomes of run_write once the exit status is known.       *)
(***************************************************************************)
Failure(kind, message, detail) ==
    [NoResult EXCEPT !.kind = kind, !.message = message, !.detail = detail]

\* Providers that require at least one JSON event on stdout.
RequiresJsonEvent(p) == p \in {"gemini", "opencode"}

\* Providers whose run_write collects a stream_error and fails on it.
ChecksStreamError(p) == p \in {"amp", "gemini", "opencode"}

\* A variant of HasSession that lets a stream with no session id succeed.
HasSessionUnchecked(locals) == TRUE

\* The session id a successful result needs.
HasSession(locals) == locals.session_id # None

Finish(p, locals, code, stderr) ==
    IF code # 0
    THEN [NoResult EXCEPT !.kind = "CommandFailed", !.command = p,
                          !.code = code, !.stderr = stderr]
    ELSE IF RequiresJsonEvent(p) /\ ~locals.saw_json_event
    THEN Failure("WriteProtocol", "output does not contain JSON events", None)
    ELSE IF ChecksStreamError(p) /\ locals.stream_error # None
    THEN Failure("WriteProtocol", "stream returned an error", locals.stream_error)
    ELSE IF ~HasSession(locals)
    THEN Failure("WriteProtocol", "missing session id in event stream", None)
    ELSE [NoResult EXCEPT !.kind = "Ok", !.session_id = locals.session_id,
                          !.final_text = locals.final_text]

(***************************************************************************)
(* The main path.                                                          *)
(***************************************************************************)
childVars == <<child, childIntent, outWritten, errWritten, errPipe>>
drainVars == <<errThread, stderr_content, stderrOpen>>
histVars == <<signalled, revealed>>

\* spawn_*_command succeeded: stdin is null, both pipes are taken and the
\* stderr-drain thread is started before stdout is read.
Spawn ==
    /\ pc = "idle"
    /\ pc' = "reading"
    /\ child' = [state |-> "running", code |-> 0]
    /\ stdoutOpen' = TRUE
    /\ stderrOpen' = TRUE
    /\ errThread' = "running"
    /\ st' = InitLocals(req.session_id)
    /\ UNCHANGED <<rvars, xvars, provider, req, childIntent, outPipe, errPipe, outWritten,
                   errWritten, stderr_content, line_no, sink, waited, joined,
                   killed, signalled, revealed, result>>

\* spawn failed with the OS "not found" condition.
SpawnNotFound ==
    /\ pc = "idle"
    /\ pc' = "done"
    /\ result' = [Failure("CommandNotFound", None, None) EXCEPT !.command = provider]
    /\ UNCHANGED <<rvars, xvars, provider, req, child, childIntent, outPipe, errPipe,
                   outWritten, errWritten, stdoutOpen, stderrOpen, errThread,
                   stderr_content, st, line_no, sink, waited, joined, killed,
                   signalled, revealed>>

\* An error leaves run_write through `?`: the stdout reader is dropped (its
\* read end closes), the Child and the JoinHandle are dropped without wait,
\* kill or join.
ReturnEarly(res) ==
    /\ pc' = "done"
    /\ result' = res
    /\ stdoutOpen' = FALSE
    /\ outPipe' = <<>>
    /\ UNCHANGED <<waited, joined, killed>>

Called(calls, n, failed) ==
    [i \in 1..n |-> [op |-> calls[i][1], arg |-> calls[i][2],
                     ok |-> ~(failed /\ i = n)]]

\* One JSON value reaches the provider's handler; each sink call it makes
\* may fail, and the first failure ends run_write with the sink's error.
HandleValue(v) ==
    LET step == OnValue(provider, st, v)
    IN  /\ signalled' = IF ErrorSignal(v) THEN signalled \cup {ErrorText(v)}
                        ELSE signalled
        /\ revealed' = IF v.sid # None THEN revealed \cup {v.sid} ELSE revealed
        /\ \E k \in 0..Len(step.calls) :
             IF k = Len(step.calls)
             THEN /\ sink' = sink \o Called(step.calls, k, FALSE)
                  /\ st' = step.st
                  /\ outPipe' = Tail(outPipe)
                  /\ UNCHANGED <<pc, result, stdoutOpen, waited, joined, killed>>
             ELSE /\ sink' = sink \o Called(step.calls, k + 1, TRUE)
                  /\ st' = st
                  /\ ReturnEarly(Failure("SinkError", None, None))

\* A line that is skipped: blank, or unparseable under the lenient scan.
SkipLine ==
    /\ outPipe' = Tail(outPipe)
    /\ UNCHANGED <<pc, result, stdoutOpen, waited, joined, killed, st, sink,
                   signalled, revealed>>

\* BufRead::read_line / lines(): the bytes of a line must be UTF-8, else the
\* read fails with an I/O error (InvalidData).
IsUtf8(line) == line.kind # "undecodable"

\* The main path takes the next line of stdout.
ReadLine ==
    /\ pc = "reading"
    /\ outPipe # <<>>
    /\ LET line == Head(outPipe)
           parsed == ParseJsonLine(line)
       IN  IF ~IsUtf8(line)
           THEN /\ line_no' = line_no
                /\ ReturnEarly(Failure("Io", None, None))
                /\ UNCHANGED <<st, sink, signalled, revealed>>
           ELSE /\ line_no' = line_no + 1
                /\ IF parsed.tag = "none" THEN SkipLine
                   ELSE IF parsed.tag = "err"
                   THEN IF StrictReader(provider)
                        THEN /\ ReturnEarly([Failure("InvalidJsonLine", None, None)
                                                EXCEPT !.line = line_no + 1])
                             /\ UNCHANGED <<st, sink, signalled, revealed>>
                        ELSE SkipLine
                   ELSE HandleValue(parsed.value)
    /\ UNCHANGED <<rvars, xvars, provider, req, childVars, drainVars>>

\* read_line returns 0 bytes: the buffer is empty and every write end is
\* closed, which is when the child has exited.
ReadEof ==
    /\ pc = "reading"
    /\ outPipe = <<>>
    /\ child.state = "exited"
    /\ pc' = "waiting"
    /\ stdoutOpen' = FALSE
    /\ UNCHANGED <<rvars, xvars, provider, req, childVars, drainVars, histVars, outPipe, st,
                   line_no, sink, waited, joined, killed, result>>

\* child.wait() returns once the child has exited.
Wait ==
    /\ pc = "waiting"
    /\ child.state = "exited"
    /\ waited' = TRUE
    /\ pc' = "joining"
    /\ UNCHANGED <<rvars, xvars, provider, req, childVars, drainVars, histVars, outPipe,
                   stdoutOpen, st, line_no, sink, joined, killed, result>>

\* stderr_handle.join() returns once the drain thread has finished; the
\* outcome is then decided.
Join ==
    /\ pc = "joining"
    /\ errThread = "finished"
    /\ joined' = TRUE
    /\ result' = Finish(provider, st, child.code, stderr_content)
    /\ pc' = "done"
    /\ UNCHANGED <<rvars, xvars, provider, req, childVars, drainVars, histVars, outPipe,
                   stdoutOpen, st, line_no, sink, waited, killed>>

(***************************************************************************)
(* The stderr-drain thread: read_to_string until end of file.              *)
(***************************************************************************)
\* A variant in which stderr is read only after stdout reached its end.
DrainsAfterStdout == FALSE

\* Whether the drain thread reads while the main path reads stdout.
DrainsConcurrently == TRUE

DrainRead ==
    /\ errThread = "running"
    /\ DrainsConcurrently \/ pc # "reading"
    /\ errPipe > 0
    /\ errPipe' = errPipe - 1
    /\ stderr_content' = stderr_content + 1
    /\ UNCHANGED <<rvars, xvars, provider, req, pc, child, childIntent, outPipe, outWritten,
                   errWritten, stdoutOpen, stderrOpen, errThread, st, line_no,
                   sink, waited, joined, killed, signalled, revealed, result>>

DrainEof ==
    /\ errThread = "running"
    /\ DrainsConcurrently \/ pc # "reading"
    /\ errPipe = 0
    /\ child.state = "exited"
    /\ errThread' = "finished"
    /\ stderrOpen' = FALSE
    /\ UNCHANGED <<rvars, xvars, provider, req, pc, child, childIntent, outPipe, errPipe,
                   outWritten, errWritten, stdoutOpen, stderr_content, st,
                   line_no, sink, waited, joined, killed, signalled, revealed,
                   result>>

(***************************************************************************)
(* The child process: it writes lines to stdout and chunks to stderr in    *)
(* an order of its own, blocking on a full pipe, and then exits.           *)
(***************************************************************************)
ChildChoose(target) ==
    /\ child.state = "running"
    /\ childIntent = "none"
    /\ \/ target = "out" /\ outWritten < MaxOut
       \/ target = "err" /\ errWritten < MaxErr
    /\ childIntent' = target
    /\ UNCHANGED <<rvars, xvars, provider, req, pc, child, outPipe, errPipe, outWritten,
                   errWritten, stdoutOpen, stderrOpen, errThread,
                   stderr_content, st, line_no, sink, waited, joined, killed,
                   signalled, revealed, result>>

\* A write to stdout: it blocks while the buffer is full and a reader holds
\* the pipe, and fails (EPIPE) once the read end is closed.
ChildWriteOut(line) ==
    /\ child.state = "running"
    /\ childIntent = "out"
    /\ IF stdoutOpen
       THEN /\ Len(outPipe) < PipeCap
            /\ outPipe' = Append(outPipe, line)
       ELSE outPipe' = outPipe
    /\ outWritten' = outWritten + 1
    /\ childIntent' = "none"
    /\ UNCHANGED <<rvars, xvars, provider, req, pc, child, errPipe, errWritten, stdoutOpen,
                   stderrOpen, errThread, stderr_content, st, line_no, sink,
                   waited, joined, killed, signalled, revealed, result>>

ChildWriteErr ==
    /\ child.state = "running"
    /\ childIntent = "err"
    /\ IF stderrOpen
       THEN /\ errPipe < PipeCap
            /\ errPipe' = errPipe + 1
       ELSE errPipe' = errPipe
    /\ errWritten' = errWritten + 1
    /\ childIntent' = "none"
    /\ UNCHANGED <<rvars, xvars, provider, req, pc, child, outPipe, outWritten, stdoutOpen,
                   stderrOpen, errThread, stderr_content, st, line_no, sink,
                   waited, joined, killed, signalled, revealed, result>>

ChildExit(code) ==
    /\ child.state = "running"
    /\ childIntent = "none"
    /\ child' = [state |-> "exited", code |-> code]
    /\ UNCHANGED <<rvars, xvars, provider, req, pc, childIntent, outPipe, errPipe, outWritten,
                   errWritten, stdoutOpen, stderrOpen, errThread,
                   stderr_content, st, line_no, sink, waited, joined, killed,
                   signalled, revealed, result>>

MainStep == Spawn \/ SpawnNotFound \/ ReadLine \/ ReadEof \/ Wait \/ Join
DrainStep == DrainRead \/ DrainEof
ChildStep ==
    \/ \E target \in {"out", "err"} : ChildChoose(target)
    \/ \E line \in Lines(provider) : ChildWriteOut(line)
    \/ ChildWriteErr
    \/ \E code \in ExitCodes : ChildExit(code)

WNext == MainStep \/ DrainStep \/ ChildStep

(***************************************************************************)
(* The resolvers.                                                          *)
(***************************************************************************)
Warn(kind, count, path) == [kind |-> kind, count |-> count, path |-> path]

Resolved(source, path, count, warnings) ==
    [kind |-> "ok", source |-> source, path |-> path,
     candidate_count |-> count, warnings |-> warnings]

ThreadNotFound == [NoResolution EXCEPT !.kind = "not_found"]
SqliteError == [NoResolution EXCEPT !.kind = "error", !.source = "Sqlite"]

\* The orders in which a directory walk can meet the paths.
WalkOrders ==
    {w \in [1..MaxPaths -> Paths] : \A i, j \in 1..MaxPaths : i # j => w[i] # w[j]}

Exists(p) == files[p].present
Modified(p) == files[p].mtime

\* A variant of choose_latest that keeps the first candidate the walk met.
ChooseFirstFound(paths) ==
    IF paths = <<>> THEN [path |-> 0, count |-> 0]
    ELSE [path |-> paths[1], count |-> Len(paths)]

\* choose_latest: a stable sort by descending modification time, of which
\* the first element is kept together with the number of candidates.
ChooseLatest(paths) ==
    IF paths = <<>> THEN [path |-> 0, count |-> 0]
    ELSE LET first == CHOOSE i \in 1..Len(paths) :
                 /\ \A j \in 1..Len(paths) : Modified(paths[j]) <= Modified(paths[i])
                 /\ \A j \in 1..(i - 1) : Modified(paths[j]) < Modified(paths[i])
         IN  [path |-> paths[first], count |-> Len(paths)]

\* The "multiple matches" warning a tier attaches when it chose among
\* several candidates.
Multiple(kind, chosen) ==
    IF chosen.count > 1 THEN <<Warn(kind, chosen.count, chosen.path)>> ELSE <<>>

\* codex.rs lookup_thread_from_state_db: the row of the first database that
\* has one; a database that cannot be queried adds a warning.
RECURSIVE LookupFrom(_, _)
LookupFrom(dbs, i) ==
    IF i > Len(dbs) THEN [record |-> NoRow, warnings |-> <<>>]
    ELSE IF dbs[i].kind = "row" THEN [record |-> dbs[i], warnings |-> <<>>]
    ELSE LET rest == LookupFrom(dbs, i + 1)
         IN  IF dbs[i].kind = "unreadable"
             THEN [rest EXCEPT !.warnings = <<Warn("unreadable_index", 0, i)>> \o @]
             ELSE rest

LookupThreadFromStateDb(dbs) == LookupFrom(dbs, 1)

\* codex.rs find_candidates: the rollout files of the session under a root.
CodexFindCandidates(walk, root) ==
    SelectSeq(walk, LAMBDA p : Exists(p) /\ files[p].tree = root /\ files[p].named)

CodexResolve(walk) ==
    LET look == LookupThreadFromStateDb(state_dbs)
        record == look.record
        live == record.kind = "row" /\ ~record.archived
        kept == record.kind = "row" /\ record.archived
        w1 == look.warnings \o
              (IF live /\ ~Exists(record.path)
               THEN <<Warn("stale", 0, record.path)>> ELSE <<>>)
        active == ChooseLatest(CodexFindCandidates(walk, "active"))
        w2 == w1 \o
              (IF kept /\ ~Exists(record.path)
               THEN <<Warn("stale_archived", 0, record.path)>> ELSE <<>>)
        archived == ChooseLatest(CodexFindCandidates(walk, "archived"))
    IN  IF live /\ Exists(record.path)
        THEN Resolved("codex:sqlite:sessions", record.path, 1, look.warnings)
        ELSE IF active.count > 0
        THEN Resolved("codex:sessions", active.path, active.count,
                      w1 \o Multiple("multiple", active))
        ELSE IF kept /\ Exists(record.path)
        THEN Resolved("codex:sqlite:archived_sessions", record.path, 1, w1)
        ELSE IF archived.count > 0
        THEN Resolved("codex:archived_sessions", archived.path, archived.count,
                      w2 \o Multiple("multiple_archived", archived))
        ELSE ThreadNotFound

\* claude.rs: the three finders.
FindFromSessionsIndex == SelectSeq(sessions_index, Exists)
FindByFilename(walk) == SelectSeq(walk, LAMBDA p : Exists(p) /\ files[p].named)
FindByHeaderScan(walk) == SelectSeq(walk, LAMBDA p : Exists(p) /\ files[p].tagged)

MakeResolved(chosen, source) ==
    Resolved(source, chosen.path, chosen.count, Multiple("multiple", chosen))

\* A variant of the Claude resolver that scans file contents before it
\* looks for the exact file name.
ClaudeResolveScanFirst(walk) ==
    LET index_hits == ChooseLatest(FindFromSessionsIndex)
        filename_hits == ChooseLatest(FindByFilename(walk))
        scanned_hits == ChooseLatest(FindByHeaderScan(walk))
    IN  IF index_hits.count > 0 THEN MakeResolved(index_hits, "claude:sessions-index")
        ELSE IF scanned_hits.count > 0 THEN MakeResolved(scanned_hits, "claude:header-scan")
        ELSE IF filename_hits.count > 0 THEN MakeResolved(filename_hits, "claude:filename")
        ELSE ThreadNotFound

ClaudeResolve(walk) ==
    LET index_hits == ChooseLatest(FindFromSessionsIndex)
        filename_hits == ChooseLatest(FindByFilename(walk))
        scanned_hits == ChooseLatest(FindByHeaderScan(walk))
    IN  IF index_hits.count > 0 THEN MakeResolved(index_hits, "claude:sessions-index")
        ELSE IF filename_hits.count > 0 THEN MakeResolved(filename_hits, "claude:filename")
        ELSE IF scanned_hits.count > 0 THEN MakeResolved(scanned_hits, "claude:header-scan")
        ELSE ThreadNotFound

\* A variant of the gemini / pi finder that goes by the file name alone.
FindByNameOnly(walk) == SelectSeq(walk, LAMBDA p : Exists(p) /\ files[p].named)

\* gemini.rs, pi.rs find_candidates: files of the expected name whose
\* content carries the session id.
FindCandidates(walk) ==
    SelectSeq(walk, LAMBDA p : Exists(p) /\ files[p].named /\ files[p].tagged)

GeminiResolve(walk) ==
    LET chosen == ChooseLatest(FindCandidates(walk))
    IN  IF chosen.count > 0 THEN MakeResolved(chosen, "gemini:chats")
        ELSE ThreadNotFound

PiResolve(walk) ==
    LET chosen == ChooseLatest(FindCandidates(walk))
    IN  IF chosen.count > 0 THEN MakeResolved(chosen, "pi:sessions")
        ELSE ThreadNotFound

\* amp.rs: the one path threads/<id>.json.
AmpThreadPath == 1

AmpResolve ==
    IF Exists(AmpThreadPath) THEN Resolved("amp:threads", AmpThreadPath, 1, <<>>)
    ELSE ThreadNotFound

\* opencode.rs: the path the session is materialized at.
MaterializedPath == 0

RECURSIVE Orderings(_)
\* The sequences that list every element of S once.
Orderings(S) ==
    IF S = {} THEN {<<>>}
    ELSE UNION {{<<x>> \o s : s \in Orderings(S \ {x})} : x \in S}

\* A variant of the ORDER BY clause that sorts on time_created alone.
CreatedEarlier(rows, a, b) == rows[a].time < rows[b].time

\* ORDER BY time_created ASC, id ASC: row a sorts before row b.
CreatedBefore(rows, a, b) ==
    \/ rows[a].time < rows[b].time
    \/ rows[a].time = rows[b].time /\ a < b

\* The row sequences the SELECT over a table may return: every row of the
\* session once, no row ahead of one the ORDER BY clause sorts before it.
Select(rows) ==
    {s \in Orderings({i \in DOMAIN rows : rows[i].present}) :
        \A i, j \in 1..Len(s) : i < j => ~CreatedBefore(rows, s[j], s[i])}

SelectMessages == Select(opencode_db.message)
SelectParts == Select(opencode_db.part)

\* A variant of fetch_messages that keeps the rows whose payload does not
\* parse.
FetchMessagesKeepingAll(query) ==
    LET rows == opencode_db.message
        Unparsed(m) == ~rows[m].valid
        bad == SelectSeq(query, Unparsed)
    IN  [result |-> query,
         warnings |-> [i \in 1..Len(bad) |-> Warn("skipped_message", bad[i], 0)]]

\* fetch_messages over the rows the query returned: the ids of the rows
\* whose payload parses, and a warning for each one that does not.
FetchMessages(query) ==
    LET rows == opencode_db.message
        Valid(m) == rows[m].valid
        Unparsed(m) == ~rows[m].valid
        bad == SelectSeq(query, Unparsed)
    IN  [result |-> SelectSeq(query, Valid),
         warnings |-> [i \in 1..Len(bad) |-> Warn("skipped_message", bad[i], 0)]]

\* fetch_parts: the parts that parse, grouped by message id in the order
\* met; a warning naming the message id for each one that does not.
FetchParts(query) ==
    LET rows == opencode_db.part
        Valid(q) == rows[q].valid
        Unparsed(q) == ~rows[q].valid
        bad == SelectSeq(query, Unparsed)
        good == SelectSeq(query, Valid)
    IN  [result |->
            [m \in MessageIds |->
                SelectSeq(good, LAMBDA q : rows[q].message_id = m)],
         warnings |->
            [i \in 1..Len(bad) |->
                Warn("skipped_part", rows[bad[i]].message_id, 0)]]

\* One line of the materialized document.
SessionLine == [type |-> "session", id |-> 0, parts |-> <<>>]
MessageLine(m, parts) == [type |-> "message", id |-> m, parts |-> parts]

\* render_jsonl: the session line, then one line per fetched message with
\* the parts grouped under its id.
RenderJsonl(messages, parts) ==
    <<SessionLine>> \o
    [i \in 1..Len(messages) |-> MessageLine(messages[i], parts[messages[i]])]

\* The document resolve renders from what the two queries returned.
OpencodeRaw(mq, pq) ==
    RenderJsonl(FetchMessages(mq).result, FetchParts(pq).result)

OpencodeWarnings(mq, pq) ==
    FetchMessages(mq).warnings \o FetchParts(pq).warnings

OpencodeResolve(mq, pq) ==
    IF opencode_db.state = "absent" THEN ThreadNotFound
    ELSE IF opencode_db.state = "corrupt" THEN SqliteError
    ELSE IF ~opencode_db.has_session THEN ThreadNotFound
    ELSE Resolved("opencode:sqlite", MaterializedPath, 1,
                  OpencodeWarnings(mq, pq))

ResolveWith(p, walk, mq, pq) ==
    CASE p = "codex" -> CodexResolve(walk)
      [] p = "claude" -> ClaudeResolve(walk)
      [] p = "gemini" -> GeminiResolve(walk)
      [] p = "pi" -> PiResolve(walk)
      [] p = "amp" -> AmpResolve
      [] p = "opencode" -> OpencodeResolve(mq, pq)

(***************************************************************************)
(* Steps of the resolver's world: other processes change the stores, and   *)
(* resolve runs against what it finds.                                     *)
(***************************************************************************)
writeVars ==
    <<req, pc, child, childIntent, outPipe, errPipe, outWritten, errWritten,
      stdoutOpen, stderrOpen, errThread, stderr_content, st, line_no, sink,
      waited, joined, killed, signalled, revealed, result>>

\* The files a provider's tree can hold in this model.
FileShapes(p) ==
    CASE p = "codex" ->
           [present : {TRUE}, mtime : 1..MaxMtime,
            tree : {"active", "archived", "outside"}, named : {TRUE},
            tagged : {FALSE}]
      [] p = "amp" ->
           [present : {TRUE}, mtime : 1..MaxMtime, tree : {"active"},
            named : {TRUE}, tagged : {FALSE}]
      [] p = "opencode" -> {}
      [] OTHER ->
           [present : {TRUE}, mtime : 1..MaxMtime, tree : {"active"},
            named : BOOLEAN, tagged : BOOLEAN]

CreateFile(p, f) ==
    /\ ~Exists(p)
    /\ provider = "amp" => p = AmpThreadPath
    /\ files' = [files EXCEPT ![p] = f]
    /\ resolved' = NoResolution
    /\ repeated' = FALSE
    /\ UNCHANGED <<provider, writeVars, xvars, state_dbs, sessions_index, opencode_db,
                   materialized>>

TouchFile(p, m) ==
    /\ Exists(p)
    /\ m # Modified(p)
    /\ files' = [files EXCEPT ![p].mtime = m]
    /\ resolved' = NoResolution
    /\ repeated' = FALSE
    /\ UNCHANGED <<provider, writeVars, xvars, state_dbs, sessions_index, opencode_db,
                   materialized>>

RemoveFile(p) ==
    /\ Exists(p)
    /\ files' = [files EXCEPT ![p] = AbsentFile]
    /\ resolved' = NoResolution
    /\ repeated' = FALSE
    /\ UNCHANGED <<provider, writeVars, xvars, state_dbs, sessions_index, opencode_db,
                   materialized>>

\* Codex (or a crash of it) changes what an index database holds.
SetStateDb(i, row) ==
    /\ provider = "codex"
    /\ state_dbs[i] # row
    /\ state_dbs' = [state_dbs EXCEPT ![i] = row]
    /\ resolved' = NoResolution
    /\ repeated' = FALSE
    /\ UNCHANGED <<provider, writeVars, xvars, files, sessions_index, opencode_db,
                   materialized>>

\* Claude adds an entry for the session to a sessions index, or the
\* indexes are rewritten without it.
AddIndexEntry(p) ==
    /\ provider = "claude"
    /\ Len(sessions_index) < MaxIndex
    /\ sessions_index' = Append(sessions_index, p)
    /\ resolved' = NoResolution
    /\ repeated' = FALSE
    /\ UNCHANGED <<provider, writeVars, xvars, files, state_dbs, opencode_db,
                   materialized>>

ClearIndex ==
    /\ provider = "claude"
    /\ sessions_index # <<>>
    /\ sessions_index' = <<>>
    /\ resolved' = NoResolution
    /\ repeated' = FALSE
    /\ UNCHANGED <<provider, writeVars, xvars, files, state_dbs, opencode_db,
                   materialized>>

\* The Opencode database appears, breaks or goes, with or without a row
\* for the session; a database that is not there holds no rows.
SetOpencodeDb(state, has_session) ==
    /\ provider = "opencode"
    /\ <<state, has_session>> # <<opencode_db.state, opencode_db.has_session>>
    /\ state # "ok" => ~has_session
    /\ opencode_db' =
         IF state = "ok"
         THEN [opencode_db EXCEPT !.state = state, !.has_session = has_session]
         ELSE [NoDb EXCEPT !.state = state]
    /\ resolved' = NoResolution
    /\ repeated' = FALSE
    /\ UNCHANGED <<provider, writeVars, xvars, files, state_dbs, sessions_index,
                   materialized>>

\* Opencode inserts, rewrites or deletes a message row of the session.
PutMessage(m, row) ==
    /\ provider = "opencode"
    /\ opencode_db.state = "ok" /\ opencode_db.has_session
    /\ opencode_db.message[m] # row
    /\ opencode_db' = [opencode_db EXCEPT !.message[m] = row]
    /\ resolved' = NoResolution
    /\ repeated' = FALSE
    /\ UNCHANGED <<provider, writeVars, xvars, files, state_dbs, sessions_index,
                   materialized>>

PutPart(q, row) ==
    /\ provider = "opencode"
    /\ opencode_db.state = "ok" /\ opencode_db.has_session
    /\ opencode_db.part[q] # row
    /\ opencode_db' = [opencode_db EXCEPT !.part[q] = row]
    /\ resolved' = NoResolution
    /\ repeated' = FALSE
    /\ UNCHANGED <<provider, writeVars, xvars, files, state_dbs, sessions_index,
                   materialized>>

\* fs::write(path, raw): the file is created or truncated and holds raw.
WriteFile(file, raw) == FileOf(raw)

\* resolve(session_id); the Opencode resolver also writes the file it
\* returns.
Resolve(walk, mq, pq) ==
    /\ resolved' = ResolveWith(provider, walk, mq, pq)
    /\ repeated' = (resolved.kind # "none")
    /\ materialized' =
         IF provider = "opencode" /\ resolved'.kind = "ok"
         THEN WriteFile(materialized, OpencodeRaw(mq, pq))
         ELSE materialized
    /\ UNCHANGED <<provider, writeVars, xvars, files, state_dbs, sessions_index,
                   opencode_db>>

RInit ==
    /\ WInit
    /\ req.session_id = None

RNext ==
    \/ \E p \in Paths : \E f \in FileShapes(provider) : CreateFile(p, f)
    \/ \E p \in Paths : \E m \in 1..MaxMtime : TouchFile(p, m)
    \/ \E p \in Paths : RemoveFile(p)
    \/ \E i \in DbFiles :
         \E row \in {NoRow, Unreadable}
                    \cup {Row(q, a) : q \in Paths, a \in BOOLEAN} : SetStateDb(i, row)
    \/ \E p \in Paths : AddIndexEntry(p)
    \/ ClearIndex
    \/ \E state \in {"absent", "corrupt", "ok"}, has_session \in BOOLEAN :
         SetOpencodeDb(state, has_session)
    \/ \E m \in MessageIds : \E row \in MessageRows \cup {NoMessage} :
         PutMessage(m, row)
    \/ \E q \in PartIds : \E row \in PartRows \cup {NoPart} : PutPart(q, row)
    \/ \E walk \in WalkOrders, mq \in SelectMessages, pq \in SelectParts :
         Resolve(walk, mq, pq)

vars == <<wvars, rvars, xvars>>

Spec == WInit /\ [][WNext]_vars

\* The resolver against the stores as other processes leave them.
SpecResolve == RInit /\ [][RNext]_vars

\* The scheduler runs every path that can take a step: the main thread, the
\* drain thread and the child process.
FairSpec ==
    Spec /\ WF_vars(MainStep) /\ WF_vars(DrainStep) /\ WF_vars(ChildStep)

(***************************************************************************)
(* Claims about the write adapter.                                         *)
(***************************************************************************)
IsReady(c) == c.op = "session_ready"
ReadyCalls == SelectSeq(sink, IsReady)
SinkFailed == \E i \in 1..Len(sink) : ~sink[i].ok
Spawned == child.state # "none"
Returned == pc = "done"

\* C1: in every write invocation session-ready is invoked at most once, and
\* only with a session id that differs from the one the request supplied.
C1_SessionReadyOnceAndNew ==
    /\ Len(ReadyCalls) <= 1
    /\ \A i \in 1..Len(ReadyCalls) : ReadyCalls[i].arg # req.session_id

\* C2: when a sink operation fails while stdout is consumed, no further sink
\* call is made, the child is not killed, and the child's exit status has
\* been awaited by the time the write call returns.
C2_SinkFailureStillAwaitsExit ==
    /\ \A i \in 1..Len(sink) : ~sink[i].ok => i = Len(sink)
    /\ (Returned /\ SinkFailed) => (~killed /\ waited)

\* C3: whatever the stream held, once the child has exited with a non-zero
\* status the write call returns CommandFailed with the command, the exit
\* code and the captured stderr.
C3_NonZeroExitIsCommandFailed ==
    (Returned /\ child.state = "exited" /\ child.code # 0) =>
        /\ result.kind = "CommandFailed"
        /\ result.command = provider
        /\ result.code = child.code
        /\ result.stderr = errWritten

\* C4: a stream that carried an error signal never yields a successful
\* result; with exit status zero the call fails with WriteProtocol whose
\* message holds the signalled text.
C4_StreamErrorIsWriteProtocol ==
    (Returned /\ signalled # {}) =>
        /\ result.kind # "Ok"
        /\ (joined /\ child.code = 0) =>
              /\ result.kind = "WriteProtocol"
              /\ signalled # {None} => result.detail \in signalled \ {None}

\* C5: a successful result carries a session id that the request supplied
\* or an event of the stream revealed; a stream read to its end from a child
\* that exited with zero, with no session id from either source, fails with
\* WriteProtocol.
C5_SuccessHasKnownSession ==
    /\ result.kind = "Ok" =>
          result.session_id \in ({req.session_id} \cup revealed) \ {None}
    /\ (Returned /\ joined /\ child.code = 0
            /\ req.session_id = None /\ revealed = {}) =>
          result.kind = "WriteProtocol"

\* A create request succeeds with the session id its stream revealed.
C5_Witness ==
    /\ result.kind = "Ok"
    /\ req.session_id = None
    /\ result.session_id \in revealed

\* The child is blocked in a write: the pipe is full and still open.
ChildBlocked ==
    /\ child.state = "running"
    /\ \/ childIntent = "out" /\ stdoutOpen /\ Len(outPipe) >= PipeCap
       \/ childIntent = "err" /\ stderrOpen /\ errPipe >= PipeCap

\* C6: with bounded pipes on stdout and stderr, a child blocked on a full
\* pipe is always unblocked again (some reader drains the pipe or closes
\* it), and the invocation eventually returns.
C6_NoPipeDeadlock ==
    /\ ChildBlocked ~> ~ChildBlocked
    /\ <>Returned

\* The child is blocked on a full stderr pipe while stdout is being read.
C6_Witness ==
    /\ pc = "reading"
    /\ child.state = "running"
    /\ childIntent = "err" /\ stderrOpen /\ errPipe >= PipeCap

\* C7: on every return after the process was spawned the stderr-drain
\* thread has been joined, and it is joined only after the child's exit
\* status has been obtained.
C7_JoinedAfterWaitOnEveryReturn ==
    /\ (Returned /\ Spawned) => joined
    /\ joined => waited

(***************************************************************************)
(* Claims about the resolvers.                                             *)
(***************************************************************************)
\* The rollout files of the session under a Codex tree.
TreeMatches(root) ==
    {p \in Paths : Exists(p) /\ files[p].tree = root /\ files[p].named}

\* The most recently modified members of a set of paths.
Latest(S) == {p \in S : \A q \in S : Modified(q) <= Modified(p)}

\* The first row with the given archived flag, visiting the index databases
\* in order.
FirstRow(archived) ==
    LET hits == {i \in DbFiles : /\ state_dbs[i].kind = "row"
                                  /\ state_dbs[i].archived = archived}
    IN  IF hits = {} THEN NoRow
        ELSE state_dbs[CHOOSE i \in hits : \A j \in hits : i <= j]

RowApplies(row) == row.kind = "row" /\ Exists(row.path)

\* C8: Codex resolution returns the result of the first applicable tier, in
\* the order non-archived index row with an existing path, latest rollout of
\* the active tree, archived index row with an existing path, latest rollout
\* of the archived tree; it reports ThreadNotFound exactly when no tier
\* applies.
C8_CodexTierOrder ==
    (provider = "codex" /\ resolved.kind # "none") =>
        IF RowApplies(FirstRow(FALSE))
        THEN /\ resolved.kind = "ok"
             /\ resolved.source = "codex:sqlite:sessions"
             /\ resolved.path = FirstRow(FALSE).path
        ELSE IF TreeMatches("active") # {}
        THEN /\ resolved.kind = "ok"
             /\ resolved.source = "codex:sessions"
             /\ resolved.path \in Latest(TreeMatches("active"))
        ELSE IF RowApplies(FirstRow(TRUE))
        THEN /\ resolved.kind = "ok"
             /\ resolved.source = "codex:sqlite:archived_sessions"
             /\ resolved.path = FirstRow(TRUE).path
        ELSE IF TreeMatches("archived") # {}
        THEN /\ resolved.kind = "ok"
             /\ resolved.source = "codex:archived_sessions"
             /\ resolved.path \in Latest(TreeMatches("archived"))
        ELSE resolved.kind = "not_found"

\* The paths the index databases give for the session.
RowTargets ==
    {state_dbs[i].path : i \in {j \in DbFiles : state_dbs[j].kind = "row"}}

IndexTargets == {sessions_index[i] : i \in 1..Len(sessions_index)}

\* The places at which the session's thread exists.
Locations ==
    CASE provider = "codex" ->
           {p \in Paths : Exists(p) /\ (p \in TreeMatches("active")
                \/ p \in TreeMatches("archived") \/ p \in RowTargets)}
      [] provider = "claude" ->
           {p \in Paths : Exists(p) /\ (files[p].named \/ files[p].tagged
                \/ p \in IndexTargets)}
      [] provider \in {"gemini", "pi"} ->
           {p \in Paths : Exists(p) /\ files[p].named /\ files[p].tagged}
      [] provider = "amp" -> {p \in {AmpThreadPath} : Exists(p)}
      [] provider = "opencode" ->
           IF opencode_db.state = "ok" /\ opencode_db.has_session
           THEN {MaterializedPath} ELSE {}

OneLocation == resolved.kind # "none" /\ Cardinality(Locations) = 1

FirstAnyRow ==
    LET hits == {i \in DbFiles : state_dbs[i].kind = "row"}
    IN  IF hits = {} THEN NoRow
        ELSE state_dbs[CHOOSE i \in hits : \A j \in hits : i <= j]

\* The location is one that a tier of the provider consults.
Consulted(loc) ==
    provider = "codex" =>
        \/ loc \in TreeMatches("active") \cup TreeMatches("archived")
        \/ FirstAnyRow.path = loc

\* Warnings that tell of a store that could not be used as it is.
StoreWarnings ==
    {"unreadable_index", "stale", "stale_archived", "skipped_message",
     "skipped_part"}

\* The number of sessions-index entries naming a path.
IndexEntries(loc) == Len(SelectSeq(sessions_index, LAMBDA q : q = loc))

WinningCandidates ==
    CASE resolved.source = "codex:sessions" -> TreeMatches("active")
      [] resolved.source = "codex:archived_sessions" -> TreeMatches("archived")
      [] resolved.source = "claude:sessions-index" ->
           {p \in IndexTargets : Exists(p)}
      [] resolved.source = "claude:filename" ->
           {p \in Paths : Exists(p) /\ files[p].named}
      [] resolved.source = "claude:header-scan" ->
           {p \in Paths : Exists(p) /\ files[p].tagged}
      [] resolved.source \in {"gemini:chats", "pi:sessions"} ->
           {p \in Paths : Exists(p) /\ files[p].named /\ files[p].tagged}
      [] OTHER -> {resolved.path}

\* Their number; the sessions-index tier counts entries, not files.
WinningCount ==
    IF resolved.source = "claude:sessions-index"
    THEN Len(SelectSeq(sessions_index, Exists))
    ELSE Cardinality(WinningCandidates)

\* C10: when the winning tier holds N >= 2 candidates, candidate_count is N,
\* a warning names N and the chosen path, and no candidate of the tier was
\* modified later than the chosen path.
C10_LatestOfSeveral ==
    (resolved.kind = "ok" /\ WinningCount >= 2) =>
        /\ resolved.candidate_count = WinningCount
        /\ \E i \in 1..Len(resolved.warnings) :
             /\ resolved.warnings[i].kind \in {"multiple", "multiple_archived"}
             /\ resolved.warnings[i].count = WinningCount
             /\ resolved.warnings[i].path = resolved.path
        /\ resolved.path \in WinningCandidates
        /\ \A q \in WinningCandidates : Modified(q) <= Modified(resolved.path)

\* A tier chose the later of two candidates modified at different times.
C10_Witness ==
    /\ resolved.kind = "ok"
    /\ resolved.candidate_count >= 2
    /\ \E q \in WinningCandidates : Modified(q) < Modified(resolved.path)

\* The candidates of each Claude tier, read off the stores.
IndexHits == {p \in IndexTargets : Exists(p)}
FilenameHits == {p \in Paths : Exists(p) /\ files[p].named}
ScanHits == {p \in Paths : Exists(p) /\ files[p].tagged}

\* C11: Claude resolution consults sessions-index, exact filename and
\* content scan in this order and returns from the first tier that yields a
\* candidate, tagged with that tier's source; the selected path and
\* candidate_count come from that tier alone.
C11_ClaudeTierOrder ==
    (provider = "claude" /\ resolved.kind # "none") =>
        IF IndexHits # {}
        THEN /\ resolved.kind = "ok"
             /\ resolved.source = "claude:sessions-index"
             /\ resolved.path \in Latest(IndexHits)
             /\ resolved.candidate_count = Len(SelectSeq(sessions_index, Exists))
        ELSE IF FilenameHits # {}
        THEN /\ resolved.kind = "ok"
             /\ resolved.source = "claude:filename"
             /\ resolved.path \in Latest(FilenameHits)
             /\ resolved.candidate_count = Cardinality(FilenameHits)
        ELSE IF ScanHits # {}
        THEN /\ resolved.kind = "ok"
             /\ resolved.source = "claude:header-scan"
             /\ resolved.path \in Latest(ScanHits)
             /\ resolved.candidate_count = Cardinality(ScanHits)
        ELSE resolved.kind = "not_found"

\* The filename tier answers although the content scan alone would find a
\* second, more recently modified file.
C11_Witness ==
    /\ provider = "claude"
    /\ resolved.kind = "ok"
    /\ resolved.source = "claude:filename"
    /\ resolved.candidate_count = 1
    /\ \E q \in ScanHits \ FilenameHits : Modified(q) > Modified(resolved.path)
(***************************************************************************)
(* Claims about the Opencode materialization.                              *)
(***************************************************************************)
\* C12: resolving the same Opencode session against the same root twice,
\* the database unchanged in between, returns the same materialized path and
\* leaves the same file content as the first time.
C12_SameResolveSameFile ==
    [][(provider = "opencode" /\ resolved.kind = "ok" /\ resolved'.kind = "ok")
        => (resolved'.path = resolved.path /\ materialized' = materialized)]_vars

\* The session was resolved a second time against an unchanged database
\* holding two messages created at the same time and two parts.
C12_Witness ==
    /\ provider = "opencode" /\ repeated /\ resolved.kind = "ok"
    /\ Len(materialized.lines) = 3
    /\ opencode_db.message[1].time = opencode_db.message[2].time
    /\ \E i \in 2..3 : Len(materialized.lines[i].parts) = 2

(***************************************************************************)
(* resolve of the Opencode provider step by step, for callers that run it  *)
(* at the same time against one root and one session id.                   *)
(***************************************************************************)
\* What a write beyond the end of a file leaves in between.
HoleLine == [type |-> "hole", id |-> 0, parts |-> <<>>]

\* A file after chunk is written at offset off of it.
WriteAt(lines, off, chunk) ==
    LET end == off + Len(chunk)
        n == IF Len(lines) > end THEN Len(lines) ELSE end
    IN  [i \in 1..n |->
            IF i > off /\ i <= end THEN chunk[i - off]
            ELSE IF i <= Len(lines) THEN lines[i]
            ELSE HoleLine]

Quiet == \A c \in Callers : callers[c].pc = "idle"

resolveVars ==
    <<files, state_dbs, sessions_index, opencode_db, resolved, repeated>>

\* resolve up to render_jsonl: the early returns, the two queries and the
\* rendering.
Render(c, mq, pq) ==
    /\ callers[c].pc = "idle"
    /\ callers' = [callers EXCEPT ![c] =
         IF OpencodeResolve(mq, pq).kind = "ok"
         THEN [IdleCaller EXCEPT !.pc = "rendered", !.raw = OpencodeRaw(mq, pq)]
         ELSE [IdleCaller EXCEPT !.pc = "failed"]]
    /\ UNCHANGED <<wvars, rvars, besidesCallers>>

\* fs::write, first half: File::create opens the path and truncates it.
Create(c) ==
    /\ callers[c].pc = "rendered"
    /\ materialized' = FileOf(<<>>)
    /\ callers' = [callers EXCEPT ![c].pc = "writing"]
    /\ UNCHANGED <<wvars, resolveVars, besidesCallers>>

\* fs::write, second half: write_all hands the next n lines to the file at
\* the caller's own offset; after the last one resolve returns the path.
WriteSome(c, n) ==
    LET me == callers[c]
    IN  /\ me.pc = "writing"
        /\ me.off + n <= Len(me.raw)
        /\ materialized' =
             FileOf(WriteAt(materialized.lines, me.off,
                            SubSeq(me.raw, me.off + 1, me.off + n)))
        /\ callers' = [callers EXCEPT
             ![c].off = me.off + n,
             ![c].pc = IF me.off + n = Len(me.raw) THEN "returned" ELSE "writing"]
        /\ UNCHANGED <<wvars, resolveVars, besidesCallers>>

\* The caller opens the path resolve returned and reads it.
ReadBack(c) ==
    /\ callers[c].pc = "returned"
    /\ callers' = [callers EXCEPT ![c].pc = "read", ![c].seen = materialized]
    /\ UNCHANGED <<wvars, rvars, besidesCallers>>

\* The caller is done with the thread, or with the error.
Leave(c) ==
    /\ callers[c].pc \in {"read", "failed"}
    /\ callers' = [callers EXCEPT ![c] = IdleCaller]
    /\ UNCHANGED <<wvars, rvars, besidesCallers>>

MInit ==
    /\ RInit
    /\ provider = "opencode"

\* Opencode changes the database between resolutions; the callers run
\* their steps in any order.
MNext ==
    \/ \E state \in {"absent", "corrupt", "ok"}, has_session \in BOOLEAN :
         Quiet /\ SetOpencodeDb(state, has_session)
    \/ \E m \in MessageIds : \E row \in MessageRows \cup {NoMessage} :
         Quiet /\ PutMessage(m, row)
    \/ \E c \in Callers, mq \in SelectMessages, pq \in SelectParts :
         Render(c, mq, pq)
    \/ \E c \in Callers : Create(c)
    \/ \E c \in Callers, n \in 1..Cardinality(MessageIds) + 1 : WriteSome(c, n)
    \/ \E c \in Callers : ReadBack(c)
    \/ \E c \in Callers : Leave(c)

SpecMaterialize == MInit /\ [][MNext]_vars

\* C14: when resolutions of the same Opencode root and session id run at
\* the same time, every caller that afterwards reads the path it was
\* returned finds the whole document it rendered: the session line and
\* every message line, never an empty, shorter or mixed file.
C14_ReaderSeesWholeDocument ==
    \A c \in Callers :
        callers[c].pc = "read" => callers[c].seen = FileOf(callers[c].raw)

(***************************************************************************)
(* materialized_path, for two providers side by side.                      *)
(***************************************************************************)
Code(c) == IF c = "a" THEN 1 ELSE 2

\* The digest DefaultHasher gives a root.  DefaultHasher::new() carries
\* fixed keys, so the digest depends on the root alone; it is modelled by a
\* positional digest of the components, which tells the roots of this model
\* apart as the 64-bit digest does.
RECURSIVE Digest(_)
Digest(root) ==
    IF root = <<>> THEN 0
    ELSE Digest(SubSeq(root, 1, Len(root) - 1)) * 3 + Code(root[Len(root)])

\* A variant that leaves the root out of the path.
MaterializedPathOfSession(root, session_id) ==
    [dir |-> 0, file |-> session_id]

\* materialized_path: <temp>/xurl-opencode/<root key>/<session id>.jsonl.
MaterializedPathOf(root, session_id) ==
    [dir |-> Digest(root), file |-> session_id]

\* Provider i computes the path of a session.
MaterializePath(i, session_id) ==
    /\ mounted.path[i] = NoPath
    /\ mounted' = [mounted EXCEPT
                     !.path[i] = MaterializedPathOf(mounted.root[i], session_id)]
    /\ UNCHANGED <<wvars, rvars, besidesMounted>>

PInit ==
    /\ provider = "opencode"
    /\ req = [session_id |-> None]
    /\ WriteIdle
    /\ StoresEmpty
    /\ Others("mount")

PNext == \E i \in Mounts, session_id \in Ids : MaterializePath(i, session_id)

SpecPath == PInit /\ [][PNext]_vars

IndexOf(s, x) ==
    IF \E i \in 1..Len(s) : s[i] = x
    THEN CHOOSE i \in 1..Len(s) : s[i] = x /\ \A j \in 1..(i - 1) : s[j] # x
    ELSE 0

\* str::split_once.
SplitOnce(s, x) ==
    LET i == IndexOf(s, x)
    IN  IF i = 0 THEN [found |-> FALSE, before |-> s, after |-> <<>>]
        ELSE [found |-> TRUE, before |-> SubSeq(s, 1, i - 1),
              after |-> SubSeq(s, i + 1, Len(s))]

\* str::split: the segments between the separators, empty ones included.
RECURSIVE Split(_, _)
Split(s, x) ==
    LET i == IndexOf(s, x)
    IN  IF i = 0 THEN <<s>>
        ELSE <<SubSeq(s, 1, i - 1)>> \o Split(SubSeq(s, i + 1, Len(s)), x)

\* A segment as one string, and a string as the pieces it is written with.
Text(seg) ==
    IF seg = <<>> THEN "" ELSE IF Len(seg) = 1 THEN seg[1] ELSE "<other>"
Lex(t) == IF t = "" THEN <<>> ELSE <<t>>

\* The regular expressions of uri.rs 9-20.
IsUuidSessionId(t) == t \in UuidTokens
IsAmpSessionId(t) == t \in AmpTokens
IsOpencodeSessionId(t) == t \in OpencodeTokens
IsPiShortEntryId(t) == t \in PiShortTokens

\* str::to_ascii_lowercase.
ToAsciiLowercase(t) ==
    CASE t = "0A-1B" -> "0a-1b"
      [] t \in {"T-0a-1b", "T-0A-1B"} -> "t-0a-1b"
      [] t = "ses_aB" -> "ses_ab"
      [] t = "1C13017F" -> "1c13017f"
      [] t = "Acompact-69" -> "acompact-69"
      [] OTHER -> t

\* format!("T-{}", id[2..].to_ascii_lowercase()) for an id of Amp's shape.
AmpCanonical(t) ==
    LET rest == IF t = "T-0A-1B" THEN "0A-1B" ELSE "0a-1b"
    IN  IF ToAsciiLowercase(rest) = "0a-1b" THEN "T-0a-1b" ELSE t

\* percent_decode of a key or a value.
Decodable(s) == \A i \in 1..Len(s) : s[i] # "%zz"
PercentDecode(s) == [i \in 1..Len(s) |-> IF s[i] = "%2F" THEN "/" ELSE s[i]]

\* parse_query: the pairs between "&", each split at its first "=".
ParseQuery(raw) ==
    LET NonEmpty_(pair) == pair # <<>>
        pairs == IF raw.present /\ raw.lex # <<>>
                 THEN SelectSeq(Split(raw.lex, "&"), NonEmpty_) ELSE <<>>
        Key(pair) == SplitOnce(pair, "=").before
        Good(pair) ==
            /\ Decodable(Key(pair)) /\ Key(pair) # <<>>
            /\ Decodable(SplitOnce(pair, "=").after)
        Pair(pair) ==
            [key |-> PercentDecode(Key(pair)),
             some |-> SplitOnce(pair, "=").found,
             value |-> PercentDecode(SplitOnce(pair, "=").after)]
    IN  IF \A i \in 1..Len(pairs) : Good(pairs[i])
        THEN [ok |-> TRUE, query |-> [i \in 1..Len(pairs) |-> Pair(pairs[i])]]
        ELSE [ok |-> FALSE, query |-> <<>>]

\* parse_provider.
IsProvider(scheme) == Len(scheme) = 1 /\ scheme[1] \in Providers

Target(provider_, raw_id, raw_agent_id, allows_collection) ==
    [ok |-> TRUE, error |-> None, provider |-> provider_, raw_id |-> raw_id,
     raw_agent_id |-> raw_agent_id, allows_collection |-> allows_collection]
NoTarget(kind) ==
    [ok |-> FALSE, error |-> kind, provider |-> None, raw_id |-> "",
     raw_agent_id |-> None, allows_collection |-> FALSE]

\* parse_agents_target.
ParseAgentsTarget(target) ==
    LET segments == Split(target, "/")
        all == Tail(segments)
        remaining ==
            IF /\ segments[1] = <<"codex">> /\ Len(all) >= 2
               /\ all[1] = <<"threads">>
            THEN Tail(all) ELSE all
    IN  IF segments[1] = <<>> THEN NoTarget("InvalidUri")
        ELSE IF ~IsProvider(segments[1]) THEN NoTarget("UnsupportedScheme")
        ELSE IF \E i \in 1..Len(all) : all[i] = <<>> THEN NoTarget("InvalidUri")
        ELSE IF Len(remaining) = 0 THEN Target(segments[1][1], "", None, TRUE)
        ELSE IF Len(remaining) = 1
        THEN Target(segments[1][1], Text(remaining[1]), None, TRUE)
        ELSE IF Len(remaining) = 2
        THEN Target(segments[1][1], Text(remaining[1]), Text(remaining[2]), TRUE)
        ELSE NoTarget("InvalidUri")

\* parse_legacy_target.
ParseLegacyTarget(scheme, target) ==
    LET stripped ==
            IF /\ scheme = <<"codex">> /\ Len(target) >= 2
               /\ SubSeq(target, 1, 2) = <<"threads", "/">>
            THEN SubSeq(target, 3, Len(target)) ELSE target
        segments == Split(stripped, "/")
        main_id == Text(segments[1])
        agent == IF Len(segments) >= 2 THEN Text(segments[2]) ELSE None
    IN  IF ~IsProvider(scheme) THEN NoTarget("UnsupportedScheme")
        ELSE IF main_id = "" \/ Len(segments) >= 3 \/ agent = ""
        THEN NoTarget("InvalidUri")
        ELSE Target(scheme[1], main_id, agent, FALSE)

\* from_str 292-308: the session id has the provider's shape.
ValidSessionId(p, t) ==
    CASE p = "amp" -> IsAmpSessionId(t)
      [] p = "opencode" -> IsOpencodeSessionId(t)
      [] OTHER -> IsUuidSessionId(t)

\* from_str 317-324.
CanonicalSessionId(p, t) ==
    CASE p = "amp" -> AmpCanonical(t)
      [] p = "opencode" -> t
      [] OTHER -> ToAsciiLowercase(t)

\* A variant of from_str 326-338 that leaves every agent id as written.
AgentIdVerbatim(p, t) == t

\* from_str 326-338.
CanonicalAgentId(p, t) ==
    IF t = None THEN None
    ELSE IF p = "amp" /\ IsAmpSessionId(t) THEN AmpCanonical(t)
    ELSE IF \/ p \in {"codex", "gemini"} /\ IsUuidSessionId(t)
            \/ p = "pi" /\ (IsUuidSessionId(t) \/ IsPiShortEntryId(t))
    THEN ToAsciiLowercase(t)
    ELSE t

\* from_str 279-353, once the target is split.
Validated(t, query) ==
    IF t.raw_id = ""
    THEN IF t.allows_collection /\ t.raw_agent_id = None
         THEN Address(t.provider, "", None, query)
         ELSE Invalid("InvalidUri")
    ELSE IF ~ValidSessionId(t.provider, t.raw_id)
    THEN Invalid("InvalidSessionId")
    ELSE IF /\ t.provider = "amp" /\ t.raw_agent_id # None
            /\ ~IsAmpSessionId(t.raw_agent_id)
    THEN Invalid("InvalidSessionId")
    ELSE IF /\ t.provider = "opencode" /\ t.raw_agent_id # None
            /\ ~IsOpencodeSessionId(CanonicalAgentId(t.provider, t.raw_agent_id))
    THEN Invalid("InvalidSessionId")
    ELSE Address(t.provider, CanonicalSessionId(t.provider, t.raw_id),
                 CanonicalAgentId(t.provider, t.raw_agent_id), query)

\* AgentsUri::from_str.
FromStr(input) ==
    LET scheme == SplitOnce(input, "://")
        target_with_query == IF scheme.found THEN scheme.after ELSE input
        split == SplitOnce(target_with_query, "?")
        query == ParseQuery([present |-> split.found, lex |-> split.after])
        t == IF ~scheme.found \/ scheme.before = <<"agents">>
             THEN ParseAgentsTarget(split.before)
             ELSE ParseLegacyTarget(scheme.before, split.before)
    IN  IF ~query.ok THEN Invalid("InvalidUri")
        ELSE IF ~t.ok THEN Invalid(t.error)
        ELSE Validated(t, query.query)

IsCollection(a) == a.session_id = "" /\ a.agent_id = None

\* A variant of as_agents_string that leaves the provider out.
AsAgentsStringOfSession(a) == <<"agents", "://", a.session_id>>

\* AgentsUri::as_agents_string.
AsAgentsString(a) ==
    IF IsCollection(a) THEN <<"agents", "://", a.provider>>
    ELSE IF a.agent_id # None
    THEN <<"agents", "://", a.provider, "/", a.session_id, "/", a.agent_id>>
    ELSE <<"agents", "://", a.provider, "/", a.session_id>>

\* AgentsUri::as_string.
AsString(a) ==
    IF IsCollection(a) THEN AsAgentsString(a)
    ELSE IF a.agent_id # None
    THEN <<a.provider, "://", a.session_id, "/", a.agent_id>>
    ELSE <<a.provider, "://", a.session_id>>

\* The address written in one of the three forms.
Written(form) ==
    LET body ==
            (IF uri.deeplink THEN <<"threads", "/">> ELSE <<>>)
            \o Lex(uri.id)
            \o (IF uri.agent # None THEN <<"/">> \o Lex(uri.agent) ELSE <<>>)
            \o (IF uri.query.present THEN <<"?">> \o uri.query.lex ELSE <<>>)
    IN  CASE form = "legacy" -> <<uri.provider, "://">> \o body
          [] form = "agents" -> <<"agents", "://", uri.provider, "/">> \o body
          [] form = "bare" -> <<uri.provider, "/">> \o body

\* AgentsUri::parse of the address in one form.
Parse(form) ==
    /\ uri.parsed[form] = Pending
    /\ uri' = [uri EXCEPT !.parsed[form] = FromStr(Written(form))]
    /\ UNCHANGED <<wvars, rvars, besidesUri>>

\* A parsed address is written back in one family and parsed again.
ParseAgain(form, style) ==
    /\ uri.parsed[form].ok
    /\ uri.again # [form |-> form, style |-> style,
                    out |-> FromStr(IF style = "legacy"
                                    THEN AsString(uri.parsed[form])
                                    ELSE AsAgentsString(uri.parsed[form]))]
    /\ uri' = [uri EXCEPT !.again =
         [form |-> form, style |-> style,
          out |-> FromStr(IF style = "legacy" THEN AsString(uri.parsed[form])
                          ELSE AsAgentsString(uri.parsed[form]))]]
    /\ UNCHANGED <<wvars, rvars, besidesUri>>

UInit ==
    /\ provider = "codex"
    /\ req = [session_id |-> None]
    /\ WriteIdle
    /\ StoresEmpty
    /\ Others("uri")
    /\ uri.deeplink => uri.provider = "codex"

UNext ==
    \/ \E form \in Forms : Parse(form)
    \/ \E form \in Forms, style \in {"legacy", "agents"} : ParseAgain(form, style)

SpecUri == UInit /\ [][UNext]_vars

(***************************************************************************)
(* Claims about addresses.                                                 *)
(***************************************************************************)
\* C15: for a provider and a session id valid for it, the address parsed
\* from the pair in either family, written back with as_string or with
\* as_agents_string and parsed again, is the same address.
C15_RoundTrip ==
    (/\ uri.agent = None /\ ~uri.query.present /\ ~uri.deeplink
     /\ uri.again.out # Pending)
        => uri.again.out = uri.parsed[uri.again.form]

\* An Amp id written in upper case went through the agents form and back
\* through the legacy one.
C15_Witness ==
    /\ uri.provider = "amp" /\ uri.id = "T-0A-1B" /\ uri.agent = None
    /\ ~uri.query.present
    /\ uri.again.form = "agents" /\ uri.again.style = "legacy"
    /\ uri.again.out.ok /\ uri.again.out.session_id = "T-0a-1b"

\* Two outcomes agree: equal addresses, or two failures.
SameOutcome(a, b) == (a.ok /\ b.ok /\ a = b) \/ (~a.ok /\ ~b.ok)

\* C16: for every provider, id token, optional agent token and query
\* string, the legacy form, the agents:// form and the latter without its
\* prefix parse to the same outcome, Codex threads/ inputs included.
C16_ThreeFormsAgree ==
    \A f, g \in Forms :
        (uri.parsed[f] # Pending /\ uri.parsed[g] # Pending)
            => SameOutcome(uri.parsed[f], uri.parsed[g])

\* The shape the provider asks of a session id.
SessionShaped(p, t) == t # None /\ ValidSessionId(p, t)

\* C17 as stated: a parsed agent id is canonicalized as a session id is for
\* Amp, Gemini and Pi, and kept as written for Claude, Codex and Opencode.
C17_AgentIdAsStated ==
    \A f \in Forms :
        (uri.parsed[f].ok /\ uri.parsed[f].agent_id # None) =>
            LET p == uri.parsed[f].provider
                given == uri.agent
            IN  /\ (p \in {"amp", "gemini", "pi"} /\ SessionShaped(p, given))
                    => uri.parsed[f].agent_id = CanonicalSessionId(p, given)
                /\ p \in {"claude", "codex", "opencode"}
                    => uri.parsed[f].agent_id = given

\* C17 as the code has it: an agent id of the shape of the provider's
\* session id is canonicalized as one for Amp, Codex, Gemini and Pi, and so
\* is an eight-digit entry id for Pi; every other agent id, and every agent
\* id for Claude and Opencode, is kept as written.
C17_AgentIdCanonical ==
    \A f \in Forms :
        (uri.parsed[f].ok /\ uri.parsed[f].agent_id # None) =>
            LET p == uri.parsed[f].provider
                given == uri.agent
            IN  uri.parsed[f].agent_id =
                    IF p \in {"amp", "codex", "gemini", "pi"} /\ SessionShaped(p, given)
                    THEN CanonicalSessionId(p, given)
                    ELSE IF p = "pi" /\ IsPiShortEntryId(given)
                    THEN ToAsciiLowercase(given)
                    ELSE given

\* A Codex agent id written in upper case was parsed to lower case in both
\* families.
C17_Witness ==
    /\ uri.provider = "codex" /\ uri.agent = "0A-1B"
    /\ uri.parsed["legacy"].ok /\ uri.parsed["legacy"].agent_id = "0a-1b"
    /\ uri.parsed["agents"].ok /\ uri.parsed["agents"].agent_id = "0a-1b"

\* The three forms agree when the query holds no "://".
PlainQueryFormsAgree ==
    (\A i \in 1..Len(uri.query.lex) : uri.query.lex[i] # "://")
        => C16_ThreeFormsAgree

(***************************************************************************)
(* jsonl.rs: parse_jsonl_reader over a stream, with a callback that may    *)
(* fail.                                                                   *)
(***************************************************************************)
\* One turn of the loop over a line: line_no counts it, parse_json_line
\* reads it, and a value goes to on_value, which returns Ok or an error.
ReaderLine(ok) ==
    LET n == reader.line_no + 1
        parsed == ParseJsonLine(reader.input[n])
    IN  /\ reader.outcome = "reading"
        /\ reader.line_no < Len(reader.input)
        /\ parsed.tag # "value" => ok
        /\ reader' =
             IF parsed.tag = "none" THEN [reader EXCEPT !.line_no = n]
             ELSE IF parsed.tag = "err"
             THEN [reader EXCEPT !.line_no = n, !.outcome = "InvalidJsonLine",
                                 !.line = n]
             ELSE [reader EXCEPT
                     !.line_no = n,
                     !.calls = Append(reader.calls,
                                      [line_no |-> n, value |-> parsed.value,
                                       ok |-> ok]),
                     !.outcome = IF ok THEN "reading" ELSE "CallbackError"]
        /\ UNCHANGED <<wvars, rvars, besidesReader>>

\* read_line returns 0 bytes: the loop breaks and the read is Ok.
ReaderEof ==
    /\ reader.outcome = "reading"
    /\ reader.line_no = Len(reader.input)
    /\ reader' = [reader EXCEPT !.outcome = "Ok"]
    /\ UNCHANGED <<wvars, rvars, besidesReader>>

\* read_line fails.
ReaderIoError ==
    /\ reader.outcome = "reading"
    /\ reader' = [reader EXCEPT !.outcome = "Io"]
    /\ UNCHANGED <<wvars, rvars, besidesReader>>

JInit ==
    /\ provider = "codex"
    /\ req = [session_id |-> None]
    /\ WriteIdle
    /\ StoresEmpty
    /\ Others("reader")

JNext ==
    \/ \E ok \in BOOLEAN : ReaderLine(ok)
    \/ ReaderEof
    \/ ReaderIoError

SpecReader == JInit /\ [][JNext]_vars

\* The non-blank lines among the first n of the stream, with their numbers.
NonBlankUpTo(n) ==
    LET Numbered == [i \in 1..n |-> [line_no |-> i, value |-> reader.input[i]]]
        NotBlank(l) == l.value.kind # "blank"
    IN  SelectSeq(Numbered, NotBlank)

\* The callback's calls, without their results.
Delivered ==
    [i \in 1..Len(reader.calls) |->
        [line_no |-> reader.calls[i].line_no, value |-> reader.calls[i].value]]

Malformed(i) == reader.input[i].kind = "garbage"

\* C18: the callback is invoked once for each non-blank line that precedes
\* the first failure, in stream order and with the line's 1-based number;
\* the first malformed non-blank line or the first callback failure ends the
\* read with that error, and no later line is delivered.
C18_ReaderDelivery ==
    /\ reader.outcome \in {"reading", "Ok", "CallbackError", "Io"}
        => Delivered = NonBlankUpTo(reader.line_no)
    /\ reader.outcome = "InvalidJsonLine"
        => /\ Malformed(reader.line_no) /\ reader.line = reader.line_no
           /\ Delivered = NonBlankUpTo(reader.line_no - 1)
    /\ \A i \in 1..reader.line_no :
        Malformed(i) => reader.outcome = "InvalidJsonLine" /\ reader.line_no = i
    /\ \A i \in 1..Len(reader.calls) :
        ~reader.calls[i].ok
            => /\ i = Len(reader.calls) /\ reader.outcome = "CallbackError"
               /\ reader.line_no = reader.calls[i].line_no
    /\ reader.outcome = "Ok" => reader.line_no = Len(reader.input)

\* A value was delivered as line 2 after a blank line, and the read ended
\* at a malformed line 3.
C18_Witness ==
    /\ Len(reader.input) = 3 /\ reader.input[1].kind = "blank"
    /\ reader.outcome = "InvalidJsonLine" /\ reader.line = 3
    /\ Len(reader.calls) = 1 /\ reader.calls[1].line_no = 2

(***************************************************************************)
(* turl-core render.rs: the message extracted from one record.             *)
(***************************************************************************)
\* str::trim.
Trim(t) ==
    CASE t = " a " -> "a"
      [] t = " t " -> "t"
      [] t = " " -> ""
      [] OTHER -> t

IsText(t) == t # None /\ Trim(t) # ""

Message(role, text) == [some |-> TRUE, role |-> role, text |-> text]

\* parse_role.
IsRole(role) == role \in {"user", "assistant"}

\* The chunks a message text is joined from do not trim to nothing.  The
\* text of a message is the sequence of its chunks, joined by "\n\n".
TrimIsEmpty(text) == \A i \in 1..Len(text) : Trim(text[i]) = ""

\* A variant of extract_text that does not pass over TOOL_TYPES items.
RECURSIVE ExtractAllChunks(_)
ExtractAllChunks(items) ==
    IF items = <<>> THEN <<>>
    ELSE LET item == Head(items)
         IN  (IF IsText(item.text) THEN <<Trim(item.text)>>
              ELSE IF IsText(item.input_text) THEN <<Trim(item.input_text)>>
              ELSE IF IsText(item.output_text) THEN <<Trim(item.output_text)>>
              ELSE <<>>)
             \o ExtractAllChunks(Tail(items))

\* extract_text 284-312: the chunks of a content array.
RECURSIVE ExtractChunks(_)
ExtractChunks(items) ==
    IF items = <<>> THEN <<>>
    ELSE LET item == Head(items)
         IN  (IF item.type \in ToolTypes THEN <<>>
              ELSE IF IsText(item.text) THEN <<Trim(item.text)>>
              ELSE IF IsText(item.input_text) THEN <<Trim(item.input_text)>>
              ELSE IF IsText(item.output_text) THEN <<Trim(item.output_text)>>
              ELSE <<>>)
             \o ExtractChunks(Tail(items))

\* extract_text without the TOOL_TYPES test.
ExtractTextWithTools(content) ==
    IF content.kind = "string" THEN <<content.text>>
    ELSE IF content.kind = "array" THEN ExtractAllChunks(content.items)
    ELSE <<>>

\* extract_text.
ExtractText(content) ==
    IF content.kind = "string" THEN <<content.text>>
    ELSE IF content.kind = "array" THEN ExtractChunks(content.items)
    ELSE <<>>

\* extract_amp_text.
RECURSIVE ExtractAmpChunks(_)
ExtractAmpChunks(items) ==
    IF items = <<>> THEN <<>>
    ELSE LET item == Head(items)
         IN  (IF item.type = "text" /\ IsText(item.text)
              THEN <<Trim(item.text)>>
              ELSE IF item.type = "thinking" /\ IsText(item.thinking)
              THEN <<Trim(item.thinking)>>
              ELSE <<>>)
             \o ExtractAmpChunks(Tail(items))

ExtractAmpText(content) ==
    IF content.kind = "array" THEN ExtractAmpChunks(content.items) ELSE <<>>

\* extract_amp_messages, for one entry of messages.
ExtractAmpMessage(v) ==
    IF ~IsRole(v.role) \/ TrimIsEmpty(ExtractAmpText(v.content))
    THEN NotExtracted
    ELSE Message(v.role, ExtractAmpText(v.content))

\* extract_codex_message.
ExtractCodexMessage(v) ==
    IF v.type = "response_item"
    THEN IF \/ v.payload_type # "message" \/ ~IsRole(v.role)
            \/ TrimIsEmpty(ExtractText(v.content))
         THEN NotExtracted
         ELSE Message(v.role, ExtractText(v.content))
    ELSE IF v.type = "event_msg" /\ v.payload_type = "agent_message"
    THEN IF v.message = None \/ Trim(v.message) = "" THEN NotExtracted
         ELSE Message("assistant", <<v.message>>)
    ELSE NotExtracted

\* extract_claude_message.
ExtractClaudeMessage(v) ==
    LET role == IF v.role # None THEN v.role ELSE v.type
    IN  IF \/ v.type \notin {"user", "assistant"} \/ ~IsRole(role)
           \/ TrimIsEmpty(ExtractText(v.content))
        THEN NotExtracted
        ELSE Message(role, ExtractText(v.content))

\* extract_opencode_message.
RECURSIVE ExtractPartChunks(_)
ExtractPartChunks(parts) ==
    IF parts = <<>> THEN <<>>
    ELSE LET part == Head(parts)
         IN  (IF part.type \in {"text", "reasoning"} /\ IsText(part.text)
              THEN <<Trim(part.text)>> ELSE <<>>)
             \o ExtractPartChunks(Tail(parts))

ExtractOpencodeMessage(v) ==
    IF \/ v.type # "message" \/ ~IsRole(v.role)
       \/ ExtractPartChunks(v.parts) = <<>>
    THEN NotExtracted
    ELSE Message(v.role, ExtractPartChunks(v.parts))

\* extract_messages, for one record.
ExtractMessage(p, v) ==
    CASE p = "amp" -> ExtractAmpMessage(v)
      [] p = "codex" -> ExtractCodexMessage(v)
      [] p = "claude" -> ExtractClaudeMessage(v)
      [] p = "opencode" -> ExtractOpencodeMessage(v)

Extract ==
    /\ ~extraction.done
    /\ extraction' =
         [extraction EXCEPT
            !.done = TRUE,
            !.out = ExtractMessage(extraction.provider, extraction.value)]
    /\ UNCHANGED <<wvars, rvars, besidesExtraction>>

EInit ==
    /\ provider = "codex"
    /\ req = [session_id |-> None]
    /\ WriteIdle
    /\ StoresEmpty
    /\ Others("extraction")

ENext == Extract

SpecExtract == EInit /\ [][ENext]_vars

\* A record that is a tool or function call, and the texts such items carry.
ToolRecord(v) == v.payload_type \in ToolTypes
ToolTexts == {"t", " t "}

\* C19: for every provider and record, no extracted message comes from a
\* tool or function-call record or part, and the text of every extracted
\* message is non-empty after trimming.
C19_NoToolNoEmptyMessage ==
    extraction.out.some =>
        /\ ~ToolRecord(extraction.value)
        /\ \A i \in 1..Len(extraction.out.text) :
            extraction.out.text[i] \notin ToolTexts
        /\ ~TrimIsEmpty(extraction.out.text)

\* A Claude record with a tool_use item beside a text item gave a message.
C19_Witness ==
    /\ extraction.provider = "claude" /\ extraction.out.some
    /\ \E i \in 1..Len(extraction.value.content.items) :
        extraction.value.content.items[i].type = "tool_use"

(***************************************************************************)
(* The subagent relation resolver: the relation of each child of a parent  *)
(* thread and the evidence it rests on.                                    *)
(***************************************************************************)
\* The evidence strings of one child, one per independent source that
\* confirms the relation.  Claude's subagents/ directory and Opencode's
\* parent_id column are the single source of their provider; a Gemini child
\* known from the log alone has the log entries as evidence.
Evidence(p, agent) ==
    CASE p = "claude" ->
           IF agent.forward THEN <<"subagents directory of the parent">>
           ELSE <<>>
      [] p = "opencode" ->
           IF agent.backward
           THEN <<"opencode sqlite relation validated via session.parent_id">>
           ELSE <<>>
      [] OTHER ->
           (IF agent.forward THEN <<"parent thread names the child">>
            ELSE <<>>)
           \o (IF agent.backward /\ agent.found
               THEN <<"child thread names the parent">> ELSE <<>>)

\* A relation that counts as validated as soon as the child thread is found.
RelationOfFound(p, agent) ==
    [validated |-> agent.found, evidence |-> Evidence(p, agent)]

\* SubagentRelation: validated needs at least one evidence string.
Relation(p, agent) ==
    [validated |-> Evidence(p, agent) # <<>>, evidence |-> Evidence(p, agent)]

\* The relations of a list or detail view, and the number of warnings: one
\* for each child whose relation has no evidence.
SubagentViewOf(p, children) ==
    [relations |-> [i \in 1..Len(children) |-> Relation(p, children[i])],
     warnings |->
        Cardinality({i \in 1..Len(children) :
                        ~Relation(p, children[i]).validated})]

\* resolve_subagent_view: best effort, it always returns a view.
ResolveSubagentView ==
    /\ ~subagent.done
    /\ subagent' =
         [subagent EXCEPT
            !.done = TRUE,
            !.view = SubagentViewOf(subagent.provider, subagent.children)]
    /\ UNCHANGED <<wvars, rvars, besidesSubagent>>

SInit ==
    /\ provider = "codex"
    /\ req = [session_id |-> None]
    /\ WriteIdle
    /\ StoresEmpty
    /\ Others("subagent")

SNext == ResolveSubagentView

SpecSubagent == SInit /\ [][SNext]_vars

Flag(text) == [flag |-> TRUE, text |-> text]
Word(text) == [flag |-> FALSE, text |-> text]

Warning(kind, key) == [kind |-> kind, key |-> key]

\* normalize_directory: the canonical absolute path, None when there is none.
NormalizeDirectory(raw) ==
    CASE raw = "rel" -> "/cwd/rel"
      [] raw = "/gone" -> None
      [] OTHER -> raw

\* build_write_options, from the pair at i on.
RECURSIVE BuildFrom(_, _, _)
BuildFrom(query, i, o) ==
    IF o.failed # None THEN o
    ELSE IF i > Len(query)
    THEN IF o.workdir_raw = None THEN o
         ELSE IF NormalizeDirectory(o.workdir_raw) = None
         THEN [o EXCEPT !.failed = "Io"]
         ELSE [o EXCEPT !.workdir = NormalizeDirectory(o.workdir_raw)]
    ELSE LET key == query[i].key
             value == query[i].value
             given == value # None /\ value # ""
         IN  BuildFrom(query, i + 1,
               CASE key = "workdir" ->
                      IF given THEN [o EXCEPT !.workdir_raw = value]
                      ELSE [o EXCEPT !.failed = "InvalidMode"]
                 [] key = "add_dir" ->
                      IF ~given
                      THEN [o EXCEPT !.printed =
                               Append(@, Warning("empty", "add_dir"))]
                      ELSE IF NormalizeDirectory(value) = None
                      THEN [o EXCEPT !.failed = "Io"]
                      ELSE [o EXCEPT !.add_dirs =
                               Append(@, NormalizeDirectory(value))]
                 [] OTHER ->
                      [o EXCEPT !.passthrough = Append(@, query[i])])

BuildWriteOptions(query, role) ==
    BuildFrom(query, 1,
        [failed |-> None, workdir_raw |-> None, workdir |-> None,
         add_dirs |-> <<>>, passthrough |-> <<>>, role |-> role,
         printed |-> <<>>])

\* append_passthrough_args of provider/mod.rs.
RECURSIVE AppendPassthroughArgs(_)
AppendPassthroughArgs(params) ==
    IF params = <<>> THEN <<>>
    ELSE LET o == Head(params)
         IN  <<Flag(o.key)>>
             \o (IF o.value # None /\ o.value # "" THEN <<Word(o.value)>>
                 ELSE <<>>)
             \o AppendPassthroughArgs(Tail(params))

\* The append_passthrough_args that claude.rs and opencode.rs call, with the
\* keys the provider reserves: a reserved key is not forwarded and gives a
\* warning.
RECURSIVE Unreserved(_, _)
Unreserved(params, reserved) ==
    IF params = <<>> THEN <<>>
    ELSE (IF Head(params).key \in reserved THEN <<>> ELSE <<Head(params)>>)
         \o Unreserved(Tail(params), reserved)

RECURSIVE ReservedWarnings(_, _)
ReservedWarnings(params, reserved) ==
    IF params = <<>> THEN <<>>
    ELSE (IF Head(params).key \in reserved
          THEN <<Warning("reserved", Head(params).key)>> ELSE <<>>)
         \o ReservedWarnings(Tail(params), reserved)

ClaudeReserved ==
    {"workdir", "add_dir", "output-format", "print", "p", "resume",
     "continue", "session-id", "add-dir"}

OpencodeReserved ==
    {"workdir", "add_dir", "format", "session", "continue", "resume", "dir"}

\* What a provider's write gives run_write, or the failure it returns.
Built(args, cwd, warnings) ==
    [failed |-> None, spawned |-> TRUE, args |-> args, cwd |-> cwd,
     warnings |-> warnings, printed |-> <<>>]
NotSpawned(kind) == [NotBuilt EXCEPT !.failed = kind]

SessionWord == Word("<session_id>")
PromptWord == Word("<prompt>")

AmpWrite(resume, o) ==
    Built((IF resume THEN <<Word("threads"), Word("continue"), SessionWord>>
           ELSE <<>>)
          \o <<Word("-x"), PromptWord, Flag("stream-json")>>
          \o AppendPassthroughArgs(o.passthrough),
          CallerDir, <<>>)

\* load_role_overrides: the role's configuration, when it is defined.
RoleDefined(role) == role = "reviewer"
RoleOverrides(role) ==
    IF role = None THEN <<>> ELSE <<Flag("config"), Word("model=o3")>>

CodexWrite(resume, o) ==
    IF o.role # None /\ ~RoleDefined(o.role) THEN NotSpawned("InvalidMode")
    ELSE Built(<<Word("exec")>>
               \o (IF resume THEN <<Word("resume")>> ELSE <<>>)
               \o <<Flag("json")>>
               \o AppendPassthroughArgs(o.passthrough)
               \o RoleOverrides(o.role)
               \o (IF resume THEN <<SessionWord>> ELSE <<>>)
               \o <<PromptWord>>,
               CallerDir, <<>>)

RECURSIVE AddDirArgs(_)
AddDirArgs(dirs) ==
    IF dirs = <<>> THEN <<>>
    ELSE <<Flag("add-dir"), Word(Head(dirs))>> \o AddDirArgs(Tail(dirs))

ClaudeWrite(resume, o) ==
    Built(<<Word("-p"), Flag("verbose"), Flag("output-format"),
            Word("stream-json")>>
          \o AddDirArgs(o.add_dirs)
          \o AppendPassthroughArgs(Unreserved(o.passthrough, ClaudeReserved))
          \o (IF resume THEN <<Flag("resume"), SessionWord>> ELSE <<>>)
          \o <<PromptWord>>,
          IF o.workdir = None THEN CallerDir ELSE o.workdir,
          ReservedWarnings(o.passthrough, ClaudeReserved))

GeminiWrite(resume, o) ==
    Built(<<Word("-p"), PromptWord, Flag("output-format"),
            Word("stream-json")>>
          \o AppendPassthroughArgs(o.passthrough)
          \o (IF resume THEN <<Flag("resume"), SessionWord>> ELSE <<>>),
          CallerDir, <<>>)

PiWrite(resume, found, o) ==
    IF o.role # None THEN NotSpawned("InvalidMode")
    ELSE IF resume /\ ~found THEN NotSpawned("ThreadNotFound")
    ELSE Built((IF resume THEN <<Flag("session"), Word("<session_path>")>>
                ELSE <<>>)
               \o <<Word("-p"), PromptWord, Flag("mode"), Word("json")>>
               \o AppendPassthroughArgs(o.passthrough),
               CallerDir, <<>>)

OpencodeWrite(resume, o) ==
    Built(<<Word("run"), PromptWord>>
          \o (IF o.workdir # None THEN <<Flag("dir"), Word(o.workdir)>>
              ELSE <<>>)
          \o (IF resume THEN <<Flag("session"), SessionWord>> ELSE <<>>)
          \o <<Flag("format"), Word("json")>>
          \o AppendPassthroughArgs(Unreserved(o.passthrough, OpencodeReserved)),
          IF o.workdir = None THEN CallerDir ELSE o.workdir,
          (IF o.add_dirs # <<>> THEN <<Warning("unsupported", "add_dir")>>
           ELSE <<>>)
          \o ReservedWarnings(o.passthrough, OpencodeReserved))

ProviderWrite(p, resume, found, o) ==
    CASE p = "amp" -> AmpWrite(resume, o)
      [] p = "codex" -> CodexWrite(resume, o)
      [] p = "claude" -> ClaudeWrite(resume, o)
      [] p = "gemini" -> GeminiWrite(resume, o)
      [] p = "pi" -> PiWrite(resume, found, o)
      [] p = "opencode" -> OpencodeWrite(resume, o)

\* The write mode of the CLI up to the spawn.
WriteCommandOf(c) ==
    LET o == BuildWriteOptions(c.query, c.role)
    IN  IF o.failed # None
        THEN [NotSpawned(o.failed) EXCEPT !.printed = o.printed]
        ELSE [ProviderWrite(c.provider, c.resume, c.found, o)
                EXCEPT !.printed = o.printed]

WriteCommand ==
    /\ ~command.done
    /\ command' = [command EXCEPT !.done = TRUE, !.out = WriteCommandOf(command)]
    /\ UNCHANGED <<wvars, rvars, besidesCommand>>

KInit ==
    /\ provider = "codex"
    /\ req = [session_id |-> None]
    /\ WriteIdle
    /\ StoresEmpty
    /\ Others("command")

KNext == WriteCommand

SpecCommand == KInit /\ [][KNext]_vars

\* The keys a provider reserves: workdir and add_dir, which the CLI takes
\* out for every provider, the lists of claude.rs and opencode.rs, and json
\* for Codex, which the CLI's test of the query options names.
ReservedBy(p) ==
    CASE p = "claude" -> ClaudeReserved
      [] p = "opencode" -> OpencodeReserved
      [] p = "codex" -> {"workdir", "add_dir", "json"}
      [] OTHER -> {"workdir", "add_dir"}

\* a is a subsequence of b, from a[i] and b[j] on.
RECURSIVE WithinFrom(_, _, _, _)
WithinFrom(a, i, b, j) ==
    IF i > Len(a) THEN TRUE
    ELSE IF j > Len(b) THEN FALSE
    ELSE IF a[i] = b[j] THEN WithinFrom(a, i + 1, b, j + 1)
    ELSE WithinFrom(a, i, b, j + 1)

Count(x, seq) == Cardinality({i \in 1..Len(seq) : seq[i] = x})

\* The options the CLI built for this call, and the same call without any
\* query.
BuiltOptions == BuildWriteOptions(command.query, command.role)
BareCommand == WriteCommandOf([command EXCEPT !.query = <<>>])

\* C21: every option whose key the provider does not reserve is forwarded
\* as --key, followed by its value when that is non-empty, in the caller's
\* order, and no reserved key is forwarded as a flag.
C21_ForwardsAllButReserved ==
    command.out.spawned =>
        /\ WithinFrom(AppendPassthroughArgs(
                        Unreserved(command.query, ReservedBy(command.provider))),
                      1, command.out.args, 1)
        /\ \A i \in 1..Len(command.query) :
            command.query[i].key \in ReservedBy(command.provider)
                => Count(Flag(command.query[i].key), command.out.args)
                     = Count(Flag(command.query[i].key), BareCommand.args)

\* C22: a workdir option sets the working directory of the spawned process
\* and appears nowhere in its arguments, neither as a flag nor as a value.
C22_WorkdirOnlySetsDirectory ==
    (command.out.spawned /\ BuiltOptions.workdir # None) =>
        /\ command.out.cwd = BuiltOptions.workdir
        /\ \A i \in 1..Len(command.out.args) :
            /\ command.out.args[i] # Flag("workdir")
            /\ command.out.args[i] # Word(BuiltOptions.workdir)

\* The call without its add_dir options and its role.
WithoutAddDir(query) == SelectSeq(query, LAMBDA o : o.key # "add_dir")
PlainCommand ==
    WriteCommandOf([command EXCEPT !.role = None,
                                   !.query = WithoutAddDir(command.query)])

Warns(key) ==
    \E i \in 1..Len(command.out.warnings) : command.out.warnings[i].key = key

\* C23: an add_dir or a role that the provider has no equivalent for never
\* fails the call: the process is spawned and the result carries a warning
\* about the option.
C23_UnsupportedOptionWarns ==
    (command.done /\ BuiltOptions.failed = None /\ PlainCommand.spawned) =>
        /\ (/\ BuiltOptions.add_dirs # <<>>
            /\ \A i \in 1..Len(command.out.args) :
                command.out.args[i] # Flag("add-dir"))
              => command.out.spawned /\ Warns("add_dir")
        /\ (command.role # None /\ command.provider # "codex")
              => command.out.spawned /\ Warns("role")

(***************************************************************************)
(* Codex: index databases that cannot be read and rows that point nowhere. *)
(***************************************************************************)
HasWarning(kind) ==
    \E i \in 1..Len(resolved.warnings) : resolved.warnings[i].kind = kind

Stale(row) == row.kind = "row" /\ ~Exists(row.path)

\* The index databases the lookup opens when it looks for a row with the
\* given archived flag: all up to the first that has one.
Opened(archived) ==
    {i \in DbFiles :
        \A j \in DbFiles :
            j < i => ~(state_dbs[j].kind = "row"
                          /\ state_dbs[j].archived = archived)}

\* A tier after the index lookup for non-archived rows finds the session.
LaterTierFinds ==
    \/ TreeMatches("active") # {}
    \/ RowApplies(FirstRow(TRUE))
    \/ TreeMatches("archived") # {}

\* C24: Codex resolution never fails on the index itself; an unreadable
\* index database and a row whose rollout is gone each add a warning, the
\* later tiers are tried, and when one of them finds the session the result
\* is a success that carries the warnings.
C24_IndexTroubleFallsThrough ==
    (provider = "codex" /\ resolved.kind # "none") =>
        /\ resolved.kind # "error"
        /\ (Stale(FirstRow(FALSE)) /\ LaterTierFinds)
              => resolved.kind = "ok" /\ HasWarning("stale")
        /\ (/\ Stale(FirstRow(TRUE)) /\ ~RowApplies(FirstRow(FALSE))
            /\ TreeMatches("active") = {} /\ TreeMatches("archived") # {})
              => resolved.kind = "ok" /\ HasWarning("stale_archived")
        /\ \A i \in Opened(FALSE) :
            (/\ state_dbs[i].kind = "unreadable"
             /\ ~RowApplies(FirstRow(FALSE)) /\ LaterTierFinds)
              => /\ resolved.kind = "ok"
                 /\ \E k \in 1..Len(resolved.warnings) :
                     resolved.warnings[k] = Warn("unreadable_index", 0, i)

\* The same for the one row the lookup of the code keeps, the first row of
\* any kind: with that row in place of the first non-archived and the first
\* archived row, the index never fails the resolution.
C24_WithTheRowKept ==
    (provider = "codex" /\ resolved.kind # "none") =>
        LET row == FirstAnyRow
            found == \/ TreeMatches("active") # {} \/ TreeMatches("archived") # {}
                     \/ (row.kind = "row" /\ row.archived /\ Exists(row.path))
        IN  /\ resolved.kind # "error"
            /\ (Stale(row) /\ ~row.archived /\ found)
                  => resolved.kind = "ok" /\ HasWarning("stale")
            /\ (Stale(row) /\ row.archived /\ TreeMatches("active") = {}
                  /\ TreeMatches("archived") # {})
                  => resolved.kind = "ok" /\ HasWarning("stale_archived")
            /\ \A i \in DbFiles :
                (/\ state_dbs[i].kind = "unreadable"
                 /\ \A j \in DbFiles : j < i => state_dbs[j].kind # "row"
                 /\ ~(row.kind = "row" /\ ~row.archived /\ Exists(row.path))
                 /\ found)
                  => /\ resolved.kind = "ok"
                     /\ \E k \in 1..Len(resolved.warnings) :
                         resolved.warnings[k] = Warn("unreadable_index", 0, i)

\* C25: when several index databases hold a row for the session, the index
\* tier uses the first non-archived row in the order of state_db_paths, also
\* when a database visited before holds an archived row for the session.
C25_FirstLiveRowWins ==
    (/\ provider = "codex" /\ resolved.kind # "none"
     /\ \A i \in DbFiles : state_dbs[i].kind = "row"
     /\ RowApplies(FirstRow(FALSE)))
        => /\ resolved.kind = "ok"
           /\ resolved.source = "codex:sqlite:sessions"
           /\ resolved.path = FirstRow(FALSE).path
           /\ resolved.candidate_count = 1

(***************************************************************************)
(* Claude: the content scan of one file.                                   *)
(***************************************************************************)
\* file_contains_session_id: lines().take(30), blank lines passed over, the
\* first line that parses and carries the session id decides.
RECURSIVE ContainsFrom(_, _)
ContainsFrom(lines, i) ==
    IF i > Len(lines) \/ i > HeaderLines THEN FALSE
    ELSE IF lines[i] = "blank" THEN ContainsFrom(lines, i + 1)
    ELSE IF lines[i] = "tagged" THEN TRUE
    ELSE ContainsFrom(lines, i + 1)

FileContainsSessionId(lines) == ContainsFrom(lines, 1)

\* find_by_header_scan, for one file of the walk.
ScanFile ==
    /\ ~scan.done
    /\ scan' = [scan EXCEPT
                  !.done = TRUE,
                  !.candidate = scan.jsonl /\ FileContainsSessionId(scan.lines)]
    /\ UNCHANGED <<wvars, rvars, besidesScan>>

HInit ==
    /\ provider = "claude"
    /\ req = [session_id |-> None]
    /\ WriteIdle
    /\ StoresEmpty
    /\ Others("scan")

HNext == ScanFile

SpecScan == HInit /\ [][HNext]_vars

\* The non-blank lines of a file, in order.
NonBlank(lines) == SelectSeq(lines, LAMBDA l : l # "blank")

\* C26: a .jsonl file is a candidate of the content scan exactly when one of
\* its first 30 non-blank lines carries the session id; blank lines do not
\* count toward the 30.
C26_FirstThirtyNonBlank ==
    (scan.done /\ scan.jsonl) =>
        (scan.candidate <=>
            \E i \in 1..Len(NonBlank(scan.lines)) :
                i <= HeaderLines /\ NonBlank(scan.lines)[i] = "tagged")

\* What the scan does: a candidate exactly when one of the first 30 lines,
\* blank ones counted, carries the session id.
FirstThirtyLines ==
    (scan.done /\ scan.jsonl) =>
        (scan.candidate <=>
            \E i \in 1..Len(scan.lines) :
                i <= HeaderLines /\ scan.lines[i] = "tagged")

(***************************************************************************)
(* Opencode: the document resolve writes, against the rows of the session. *)
(***************************************************************************)
ValidMessages == {m \in MessageIds : /\ opencode_db.message[m].present
                                      /\ opencode_db.message[m].valid}
InvalidMessages == {m \in MessageIds : /\ opencode_db.message[m].present
                                        /\ ~opencode_db.message[m].valid}
ValidPartsOf(m) == {q \in PartIds : /\ opencode_db.part[q].present
                                     /\ opencode_db.part[q].valid
                                     /\ opencode_db.part[q].message_id = m}
InvalidPartsOf(m) == {q \in PartIds : /\ opencode_db.part[q].present
                                       /\ ~opencode_db.part[q].valid
                                       /\ opencode_db.part[q].message_id = m}

\* seq lists every member of S once and nothing else, by creation time and,
\* for equal times, by row id.
ListsInOrder(seq, S, rows) ==
    /\ Len(seq) = Cardinality(S)
    /\ \A x \in S : \E i \in 1..Len(seq) : seq[i] = x
    /\ \A i, j \in 1..Len(seq) :
        i < j => \/ rows[seq[i]].time < rows[seq[j]].time
                 \/ /\ rows[seq[i]].time = rows[seq[j]].time
                    /\ seq[i] < seq[j]

CountOf(w) ==
    Cardinality({i \in 1..Len(resolved.warnings) : resolved.warnings[i] = w})

\* C27: the materialized document is the session header followed by one
\* record per message row whose payload parses, in (creation time, row id)
\* order, each with all the parsing part rows of that message in (creation
\* time, row id) order; every row whose payload does not parse is left out
\* and gives exactly one warning, and the resolution succeeds.
C27_MaterializedDocument ==
    (/\ provider = "opencode" /\ opencode_db.state = "ok"
     /\ opencode_db.has_session /\ resolved.kind # "none") =>
        LET doc == materialized.lines
            ids == [i \in 1..(Len(doc) - 1) |-> doc[i + 1].id]
        IN  /\ resolved.kind = "ok"
            /\ materialized.present
            /\ Len(doc) >= 1 /\ doc[1] = SessionLine
            /\ \A i \in 2..Len(doc) : doc[i].type = "message"
            /\ ListsInOrder(ids, ValidMessages, opencode_db.message)
            /\ \A i \in 2..Len(doc) :
                ListsInOrder(doc[i].parts, ValidPartsOf(doc[i].id),
                             opencode_db.part)
            /\ \A m \in InvalidMessages :
                CountOf(Warn("skipped_message", m, 0)) = 1
            /\ \A m \in MessageIds :
                CountOf(Warn("skipped_part", m, 0))
                    = Cardinality(InvalidPartsOf(m))
            /\ Len(resolved.warnings)
                 = Cardinality(InvalidMessages)
                   + Cardinality({q \in PartIds :
                                    /\ opencode_db.part[q].present
                                    /\ ~opencode_db.part[q].valid})

\* Two parsing messages, the one with the higher id created first, a parsing
\* part and one that does not parse.
C27_Witness ==
    /\ provider = "opencode" /\ resolved.kind = "ok"
    /\ ValidMessages = MessageIds
    /\ opencode_db.message[2].time < opencode_db.message[1].time
    /\ Len(materialized.lines) = 3
    /\ materialized.lines[2].id = 2
    /\ \E q1, q2 \in PartIds :
        /\ ValidPartsOf(1) = {q1}
        /\ InvalidPartsOf(2) = {q2}
    /\ Len(resolved.warnings) = 1


(***************************************************************************)
(* Delivery of the assistant text (write adapter).                         *)
(***************************************************************************)
IsTextCall(c) == c.op = "text_delta"
TextCalls(calls) == SelectSeq(calls, IsTextCall)

\* The value the main path is about to handle.
AtValue == pc = "reading" /\ outPipe # <<>> /\ Head(outPipe).kind = "json"

\* Events that carry again the text of a message the stream has carried
\* before: the final result (amp, claude), the end of a turn (pi, whose
\* message is the one message_end carried or message_update streamed), the
\* one-shot response (gemini, opencode).  Codex has no such event.
Recapitulates(p, v) ==
    CASE p \in {"amp", "claude"} -> v.type = "result" /\ v.result # None
      [] p = "pi" -> v.type = "turn_end"
      [] p \in {"gemini", "opencode"} -> v.response # None
      [] p = "codex" -> FALSE

\* C28: the text of each assistant message reaches the sink exactly once:
\* once text has been delivered, a whole-message, end-of-turn or final-result
\* event that carries it again adds no text-delta call.
C28_TextDeliveredOnce ==
    [][(/\ AtValue
        /\ Recapitulates(provider, Head(outPipe))
        /\ TextCalls(sink) # <<>>)
       => TextCalls(sink') = TextCalls(sink)]_vars

\* The same for the providers that guard the second delivery with the text
\* recorded so far (amp, claude, gemini).
C28_GuardedProviders ==
    [][(/\ provider \in {"amp", "claude", "gemini"}
        /\ AtValue
        /\ Recapitulates(provider, Head(outPipe))
        /\ TextCalls(sink) # <<>>)
       => TextCalls(sink') = TextCalls(sink)]_vars

(***************************************************************************)
(* The lenient scan of gemini and opencode.                                *)
(***************************************************************************)
\* The main path of a lenient provider is about to take a line that is no
\* JSON value.
AtNonJson ==
    /\ provider \in {"gemini", "opencode"}
    /\ pc = "reading"
    /\ outPipe # <<>>
    /\ Head(outPipe).kind # "json"

\* What the sink calls and the returned result are computed from.
outcomeVars == <<sink, st, pc, result>>

\* C29: for gemini and opencode a line of stdout that is not valid JSON
\* changes neither the sink calls nor the returned result: reading it leaves
\* the calls made, the locals the result is computed from and the position
\* of run_write as they were.
C29_NonJsonLinesAreIgnored ==
    [][AtNonJson => UNCHANGED outcomeVars]_vars

\* The same for the lines that are text: blank, or text that is no JSON.
C29_TextLinesAreIgnored ==
    [][(AtNonJson /\ IsUtf8(Head(outPipe))) => UNCHANGED outcomeVars]_vars

(***************************************************************************)
(* The session id of the result and the one reported to the sink.          *)
(***************************************************************************)
\* The id passed in the last session-ready call.
LastReady == ReadyCalls[Len(ReadyCalls)].arg

\* C30: on success, if session-ready was invoked during the invocation, the
\* session id of the WriteResult is the id passed in the last such call.
C30_ResultIsLastReportedSession ==
    (result.kind = "Ok" /\ ReadyCalls # <<>>) => result.session_id = LastReady

\* The same for the providers that change the tracked id only together with
\* a session-ready call (codex, gemini, pi, opencode).
C30_ReportingProviders ==
    (/\ provider \in {"codex", "gemini", "pi", "opencode"}
     /\ result.kind = "Ok"
     /\ ReadyCalls # <<>>) => result.session_id = LastReady
=============================================================================
